---- MODULE Spec2Model ----
(***************************************************************************)
(* A model of grr/server/data_store.py: the mutation pool, the task queue  *)
(* (QueueQueryAndOwn and friends), the claim-based record queue and the    *)
(* backend primitives they are written against.                            *)
(*                                                                         *)
(* The backend primitives (MultiSet, DeleteAttributes, DeleteSubject,      *)
(* MultiResolvePrefix, ScanAttributes, the subject lock's _Acquire and     *)
(* Release) are abstract in data_store.py; they are modelled from their    *)
(* documented contract and carry the prefix Db.                            *)
(***************************************************************************)
EXTENDS Integers, Sequences, FiniteSets, TLC

(***************************************************************************)
(* Bounds of the model.                                                    *)
(***************************************************************************)
MaxClock == 3
MaxPending == 3
MaxTTL == 3
MaxRecordsClock == 2

(***************************************************************************)
(* Program constants.                                                      *)
(***************************************************************************)
MicrosPerSec == 1000000
COLLECTION_MAX_SUFFIX == 16777215
retrywrap_timeout == 1
retrywrap_max_timeout == 10

None == 0 - 1

Workers == {"w1", "w2"}

Min(a, b) == IF a <= b THEN a ELSE b
Max(a, b) == IF a >= b THEN a ELSE b

(***************************************************************************)
(* Subjects.  A URN is kept as its base, the sub-directory added to it and *)
(* the leaf segment, the leaf as the sequence of its characters' ordinals  *)
(* so that the lexicographic order of the subjects is the order of the     *)
(* strings the program builds.                                             *)
(***************************************************************************)
Subj(base) == [base |-> base, sub |-> "", leaf |-> <<>>]

HexChar(d) == IF d < 10 THEN 48 + d ELSE 87 + d

HexVal(c) == IF c >= 97 THEN c - 87 ELSE c - 48

RECURSIVE HexStr(_)
HexStr(n) == IF n < 16 THEN <<HexChar(n)>>
             ELSE HexStr(n \div 16) \o <<HexChar(n % 16)>>

\* "%0<width>x" % n: at least width characters, zero-padded on the left.
HexPad(n, width) ==
  LET s == HexStr(n)
      k == width - Len(s)
  IN  IF k <= 0 THEN s
      ELSE [i \in 1..width |-> IF i <= k THEN 48 ELSE s[i - k]]

\* int(subject[-6:], 16)
RECURSIVE ParseHex(_)
ParseHex(s) == IF s = <<>> THEN 0
               ELSE 16 * ParseHex(SubSeq(s, 1, Len(s) - 1)) + HexVal(s[Len(s)])

\* int(subject[-6:], 16) with one character too few.
SuffixOfShort(subject) ==
  LET l == subject.leaf IN ParseHex(SubSeq(l, Len(l) - 4, Len(l)))

SuffixOf(subject) ==
  LET l == subject.leaf IN ParseHex(SubSeq(l, Len(l) - 5, Len(l)))

\* CollectionMakeURN with the suffix given (a missing suffix is drawn by the
\* caller of this operator from [1, COLLECTION_MAX_SUFFIX]).
CollectionMakeURN(urn, timestamp, suffix, subpath) ==
  [base |-> urn, sub |-> subpath,
   leaf |-> HexPad(timestamp, 16) \o <<46>> \o HexPad(suffix, 6)]

\* Python's str comparison on the leaf segments.
RECURSIVE LexLessFrom(_, _, _)
LexLessFrom(a, b, i) ==
  IF i > Len(a) THEN i <= Len(b)
  ELSE IF i > Len(b) THEN FALSE
  ELSE IF a[i] # b[i] THEN a[i] < b[i]
  ELSE LexLessFrom(a, b, i + 1)

LexLess(a, b) == LexLessFrom(a, b, 1)

(***************************************************************************)
(* Attributes are <<prefix, name>>; a cell is (subject, attribute,         *)
(* timestamp) -> value.                                                    *)
(***************************************************************************)
COLLECTION_ATTRIBUTE == <<"aff4:sequential_value", 0>>
QUEUE_LOCK_ATTRIBUTE == <<"aff4:lease", 0>>
QUEUE_TASK_PREDICATE_PREFIX == "task:"
NOTIFY_PREDICATE_PREFIX == "notify:"

QueueTaskIdToColumn(task_id) == <<QUEUE_TASK_PREDICATE_PREFIX, task_id>>

Cell(s, a, ts, v) == [subj |-> s, attr |-> a, ts |-> ts, val |-> v]

Now(clk) == clk * MicrosPerSec

(***************************************************************************)
(* Backend primitives on the set of cells.                                 *)
(***************************************************************************)
InWindow(ts, start, end) ==
  /\ (start = None \/ ts >= start)
  /\ (end = None \/ ts <= end)

DbDeleteSubject(st, s) == {c \in st : c.subj # s}

RECURSIVE DbDeleteSubjects(_, _)
DbDeleteSubjects(st, subjects) ==
  IF subjects = <<>> THEN st
  ELSE DbDeleteSubjects(DbDeleteSubject(st, Head(subjects)), Tail(subjects))

DbDeleteAttributes(st, s, attrs, start, end) ==
  {c \in st : ~(c.subj = s /\ c.attr \in attrs /\ InWindow(c.ts, start, end))}

\* values maps an attribute to a list of entries [val, ts], ts = None where the
\* value carries no timestamp of its own.
EntryTs(e, timestamp, now) ==
  IF e.ts # None THEN e.ts ELSE IF timestamp # None THEN timestamp ELSE now

DbMultiSet(st, now, s, values, timestamp, replace, to_delete) ==
  LET kept == {c \in st :
                 ~(c.subj = s /\ (c.attr \in to_delete
                                  \/ (replace /\ c.attr \in DOMAIN values)))}
      written(a) ==
        IF replace
          THEN LET e == values[a][Len(values[a])]
               IN  {Cell(s, a, EntryTs(e, timestamp, now), e.val)}
          ELSE {Cell(s, a, EntryTs(values[a][i], timestamp, now), values[a][i].val) :
                  i \in DOMAIN values[a]}
  IN  kept \cup UNION {written(a) : a \in {b \in DOMAIN values : values[b] # <<>>}}

\* The cells of subject s whose attribute starts with prefix, timestamp in
\* [start, end].
DbPrefixCells(st, s, prefix, start, end) ==
  {c \in st : c.subj = s /\ c.attr[1] = prefix /\ InWindow(c.ts, start, end)}

\* Sorted by attribute name; cells of one attribute newest first.
CellLE(c, d) ==
  \/ c.attr[2] < d.attr[2]
  \/ c.attr[2] = d.attr[2] /\ c.ts >= d.ts

RECURSIVE SortCells(_)
SortCells(S) ==
  IF S = {} THEN <<>>
  ELSE LET m == CHOOSE c \in S : \A d \in S : CellLE(c, d)
       IN  <<m>> \o SortCells(S \ {m})

\* DataStore.ResolvePrefix: the cells MultiResolvePrefix delivers for the one
\* subject, sorted by attribute.
ResolvePrefix(st, s, prefix, start, end) ==
  SortCells(DbPrefixCells(st, s, prefix, start, end))

\* DataStore.CreateNotifications: one dict entry per session_id (a later
\* notification of the same session replaces the earlier entry), written with
\* replace=False.
RECURSIVE NotificationValues(_)
NotificationValues(notifications) ==
  IF notifications = <<>> THEN <<>>
  ELSE LET n    == notifications[Len(notifications)]
           rest == NotificationValues(SubSeq(notifications, 1, Len(notifications) - 1))
           key  == <<NOTIFY_PREDICATE_PREFIX, n.session_id>>
       IN  [a \in DOMAIN rest \cup {key} |->
              IF a = key THEN <<[val |-> n, ts |-> n.timestamp]>> ELSE rest[a]]

DbCreateNotifications(st, now, queue_shard, notifications) ==
  DbMultiSet(st, now, queue_shard, NotificationValues(notifications), None, FALSE, {})

(***************************************************************************)
(* The mutation pool.                                                      *)
(***************************************************************************)
EmptyPool ==
  [delete_subject_requests |-> <<>>, set_requests |-> <<>>,
   delete_attributes_requests |-> <<>>, new_notifications |-> <<>>]

Size(p) ==
  Len(p.delete_subject_requests) + Len(p.set_requests)
    + Len(p.delete_attributes_requests)

PoolDeleteSubjects(p, subjects) ==
  [p EXCEPT !.delete_subject_requests = @ \o subjects]

PoolDeleteSubject(p, subject) ==
  [p EXCEPT !.delete_subject_requests = Append(@, subject)]

PoolMultiSet(p, subject, values, timestamp, replace, to_delete) ==
  [p EXCEPT !.set_requests =
     Append(@, [subject |-> subject, values |-> values, timestamp |-> timestamp,
                replace |-> replace, to_delete |-> to_delete])]

PoolSet(p, subject, attribute, value, timestamp, replace) ==
  PoolMultiSet(p, subject, [a \in {attribute} |-> <<[val |-> value, ts |-> None]>>],
               timestamp, replace, {})

PoolDeleteAttributes(p, subject, attributes, start, end) ==
  [p EXCEPT !.delete_attributes_requests =
     Append(@, [subject |-> subject, attributes |-> attributes,
                start |-> start, end |-> end])]

PoolCreateNotifications(p, queue, notifications) ==
  [p EXCEPT !.new_notifications =
     Append(@, [queue |-> queue, notifications |-> notifications])]

(***************************************************************************)
(* MutationPool.Flush: the backend calls it makes, in the order it makes   *)
(* them.                                                                   *)
(***************************************************************************)
\* A Flush that creates the notifications before it dispatches the data.
FlushCallsNotificationsFirst(p) ==
  [i \in 1..Len(p.new_notifications) |->
        [op |-> "CreateNotifications", req |-> p.new_notifications[i]]]
  \o <<[op |-> "DeleteSubjects", subjects |-> p.delete_subject_requests]>>
  \o [i \in 1..Len(p.delete_attributes_requests) |->
        [op |-> "DeleteAttributes", req |-> p.delete_attributes_requests[i]]]
  \o [i \in 1..Len(p.set_requests) |->
        [op |-> "MultiSet", req |-> p.set_requests[i]]]
  \o (IF Size(p) > 0 THEN <<[op |-> "Flush"]>> ELSE <<>>)

FlushCalls(p) ==
  <<[op |-> "DeleteSubjects", subjects |-> p.delete_subject_requests]>>
  \o [i \in 1..Len(p.delete_attributes_requests) |->
        [op |-> "DeleteAttributes", req |-> p.delete_attributes_requests[i]]]
  \o [i \in 1..Len(p.set_requests) |->
        [op |-> "MultiSet", req |-> p.set_requests[i]]]
  \o (IF Size(p) > 0 THEN <<[op |-> "Flush"]>> ELSE <<>>)
  \o [i \in 1..Len(p.new_notifications) |->
        [op |-> "CreateNotifications", req |-> p.new_notifications[i]]]

\* One backend call on db = [store, dirty]; dirty says that writes issued with
\* sync=False wait for a backend Flush.
ApplyCall(db, now, call) ==
  CASE call.op = "DeleteSubjects" ->
         [store |-> DbDeleteSubjects(db.store, call.subjects),
          dirty |-> db.dirty \/ call.subjects # <<>>]
    [] call.op = "DeleteAttributes" ->
         [store |-> DbDeleteAttributes(db.store, call.req.subject, call.req.attributes,
                                       call.req.start, call.req.end),
          dirty |-> TRUE]
    [] call.op = "MultiSet" ->
         [store |-> DbMultiSet(db.store, now, call.req.subject, call.req.values,
                               call.req.timestamp, call.req.replace,
                               call.req.to_delete),
          dirty |-> TRUE]
    [] call.op = "Flush" -> [store |-> db.store, dirty |-> FALSE]
    [] call.op = "CreateNotifications" ->
         [store |-> DbCreateNotifications(db.store, now, call.req.queue,
                                          call.req.notifications),
          dirty |-> db.dirty]

RECURSIVE ApplyCalls(_, _, _)
ApplyCalls(db, now, calls) ==
  IF calls = <<>> THEN db
  ELSE ApplyCalls(ApplyCall(db, now, Head(calls)), now, Tail(calls))

(***************************************************************************)
(* State.                                                                  *)
(*   store     the cells of the backend                                    *)
(*   dirty     writes issued with sync=False wait for a backend Flush      *)
(*   pool      each caller's mutation pool                                 *)
(*   inScope   the caller is inside a "with pool:" block                   *)
(*   lock      the subject lock of the task queue: expiry and holder       *)
(*   garbage   the lock object of the caller's last QueueQueryAndOwn is    *)
(*             unreferenced and its __del__ has not run yet                *)
(*   retry     LockRetryWrapper's timeout counter of a call in progress    *)
(*   wake      the time its sleep ends                                     *)
(*   clock     the wall clock, in seconds                                  *)
(*   ret       what the latest call did and returned; for a Flush the      *)
(*             names of the backend calls it made, the last of them the    *)
(*             one that raised when exc is set                             *)
(*   leaseEnd, leaseBy   per task, the rewritten timestamp of the latest   *)
(*             QueueQueryAndOwn that returned it, and its caller           *)
(*   claims    per task, the number of QueueQueryAndOwn calls that have    *)
(*             read it since it was scheduled                              *)
(*   recLease, recBy     per record (by suffix), the expiration of the     *)
(*             latest QueueClaimRecords that returned it, and its caller   *)
(*   lockObject  per caller, the lock object of its latest "with" on a     *)
(*             subject lock: whether the block is entered, and the calls   *)
(*             of Release made on the object so far                        *)
(*   flusher   the class attribute enable_flusher_thread and whether the   *)
(*             store instance in use has a flusher thread                  *)
(***************************************************************************)
VARIABLES store, dirty, pool, inScope, lock, garbage, retry, wake, clock, ret,
          leaseEnd, leaseBy, claims, recLease, recBy, lockObject, flusher

vars == <<store, dirty, pool, inScope, lock, garbage, retry, wake, clock, ret,
          leaseEnd, leaseBy, claims, recLease, recBy, lockObject, flusher>>

lockVars == <<lock, garbage, retry, wake, lockObject>>
taskGhost == <<leaseEnd, leaseBy, claims>>
recGhost == <<recLease, recBy>>
ghostVars == <<leaseEnd, leaseBy, claims, recLease, recBy>>

TaskIds == 1..2
RecSuffixes == 1..2

NoWorker == "none"

Init ==
  /\ store = {}
  /\ dirty = FALSE
  /\ pool = [w \in Workers |-> EmptyPool]
  /\ inScope = [w \in Workers |-> FALSE]
  /\ lock = [expires |-> 0, holder |-> NoWorker]
  /\ garbage = [w \in Workers |-> FALSE]
  /\ retry = [w \in Workers |-> 0]
  /\ wake = [w \in Workers |-> 0]
  /\ clock = 0
  /\ ret = [op |-> "init", w |-> NoWorker]
  /\ leaseEnd = [t \in TaskIds |-> 0]
  /\ leaseBy = [t \in TaskIds |-> NoWorker]
  /\ claims = [t \in TaskIds |-> 0]
  /\ recLease = [x \in RecSuffixes |-> 0]
  /\ recBy = [x \in RecSuffixes |-> NoWorker]
  /\ lockObject = [w \in Workers |-> [entered |-> FALSE, releases |-> 0]]
  /\ flusher = [enable_flusher_thread |-> TRUE, flusher_thread |-> TRUE]

\* The caller is not inside a call that sleeps (LockRetryWrapper).
Idle(w) == retry[w] = 0

Pending(p) == Size(p) + Len(p.new_notifications)

\* A buffering call of the pool: only the pool changes.
Buffer(w, newPool, op) ==
  /\ Idle(w)
  /\ Pending(newPool) <= MaxPending
  /\ pool' = [pool EXCEPT ![w] = newPool]
  /\ ret' = [op |-> op, w |-> w]
  /\ UNCHANGED <<store, dirty, inScope, lockVars, clock, flusher, ghostVars>>

DeleteSubjects(w, subjects) ==
  Buffer(w, PoolDeleteSubjects(pool[w], subjects), "DeleteSubjects")

DeleteSubject(w, subject) ==
  Buffer(w, PoolDeleteSubject(pool[w], subject), "DeleteSubject")

MultiSet(w, subject, values, timestamp, replace, to_delete) ==
  Buffer(w, PoolMultiSet(pool[w], subject, values, timestamp, replace, to_delete),
         "MultiSet")

\* A Set that writes through to the backend instead of buffering.
SetWriteThrough(w, subject, attribute, value, timestamp, replace) ==
  /\ Idle(w)
  /\ store' = DbMultiSet(store, Now(clock), subject,
                         [a \in {attribute} |-> <<[val |-> value, ts |-> None]>>],
                         timestamp, replace, {})
  /\ ret' = [op |-> "Set", w |-> w]
  /\ UNCHANGED <<dirty, pool, inScope, lockVars, clock, flusher, ghostVars>>

Set(w, subject, attribute, value, timestamp, replace) ==
  Buffer(w, PoolSet(pool[w], subject, attribute, value, timestamp, replace), "Set")

DeleteAttributes(w, subject, attributes, start, end) ==
  Buffer(w, PoolDeleteAttributes(pool[w], subject, attributes, start, end),
         "DeleteAttributes")

CreateNotifications(w, queue, notifications) ==
  Buffer(w, PoolCreateNotifications(pool[w], queue, notifications),
         "CreateNotifications")

(***************************************************************************)
(* MutationPool.Flush.  k = 0: every backend call returns and the pending  *)
(* lists are cleared.  k > 0: the k-th backend call raises; the calls      *)
(* before it are applied, the exception leaves Flush and nothing is        *)
(* cleared.                                                                *)
(***************************************************************************)
\* A Flush that empties the pool although a backend call has raised.
FlushBodyClearsOnError(w, k, op) ==
  LET calls == FlushCalls(pool[w])
      done  == IF k = 0 THEN calls ELSE SubSeq(calls, 1, k - 1)
      db    == ApplyCalls([store |-> store, dirty |-> dirty], Now(clock), done)
  IN  /\ Idle(w)
      /\ k \in 0..Len(calls)
      /\ store' = db.store
      /\ dirty' = db.dirty
      /\ pool' = [pool EXCEPT ![w] = EmptyPool]
      /\ ret' = [op |-> op, w |-> w, exc |-> k # 0,
                 calls |-> [i \in 1..(IF k = 0 THEN Len(calls) ELSE k) |->
                              calls[i].op]]
      /\ UNCHANGED <<lockVars, clock, flusher, ghostVars>>

FlushBody(w, k, op) ==
  LET calls == FlushCalls(pool[w])
      done  == IF k = 0 THEN calls ELSE SubSeq(calls, 1, k - 1)
      db    == ApplyCalls([store |-> store, dirty |-> dirty], Now(clock), done)
  IN  /\ Idle(w)
      /\ k \in 0..Len(calls)
      /\ store' = db.store
      /\ dirty' = db.dirty
      /\ pool' = IF k = 0 THEN [pool EXCEPT ![w] = EmptyPool] ELSE pool
      /\ ret' = [op |-> op, w |-> w, exc |-> k # 0,
                 calls |-> [i \in 1..(IF k = 0 THEN Len(calls) ELSE k) |->
                              calls[i].op]]
      /\ UNCHANGED <<lockVars, clock, flusher, ghostVars>>

Flush(w, k) == FlushBody(w, k, "Flush") /\ UNCHANGED inScope

\* __enter__ and __exit__ of the pool; inner says that the block was left by
\* an exception.
Enter(w) ==
  /\ Idle(w)
  /\ ~inScope[w]
  /\ inScope' = [inScope EXCEPT ![w] = TRUE]
  /\ ret' = [op |-> "__enter__", w |-> w]
  /\ UNCHANGED <<store, dirty, pool, lockVars, clock, flusher, ghostVars>>

\* An __exit__ that leaves the block without flushing.
ExitNoFlush(w, k, inner) ==
  /\ Idle(w)
  /\ inScope[w]
  /\ k = 0
  /\ inScope' = [inScope EXCEPT ![w] = FALSE]
  /\ ret' = [op |-> IF inner THEN "__exit__exc" ELSE "__exit__", w |-> w,
             exc |-> FALSE, calls |-> <<>>]
  /\ UNCHANGED <<store, dirty, pool, lockVars, clock, flusher, ghostVars>>

Exit(w, k, inner) ==
  /\ inScope[w]
  /\ FlushBody(w, k, IF inner THEN "__exit__exc" ELSE "__exit__")
  /\ inScope' = [inScope EXCEPT ![w] = FALSE]

\* Time passes, up to the bound.
Advance(bound) ==
  /\ clock < bound
  /\ clock' = clock + 1
  /\ UNCHANGED <<store, dirty, pool, inScope, lockVars, flusher, ret, ghostVars>>

Tick == Advance(MaxClock)

(***************************************************************************)
(* The pool's collection, record-queue and task-queue helpers.  Each only  *)
(* buffers requests.                                                       *)
(***************************************************************************)
Record(queue_id, timestamp, suffix, subpath, value) ==
  [queue_id |-> queue_id, timestamp |-> timestamp, suffix |-> suffix,
   subpath |-> subpath, value |-> value]

RecordURN(record) ==
  CollectionMakeURN(record.queue_id, record.timestamp, record.suffix, record.subpath)

PoolCollectionAddItem(p, collection_id, item, timestamp, suffix, replace) ==
  PoolSet(p, CollectionMakeURN(collection_id, timestamp, suffix, "Results"),
          COLLECTION_ATTRIBUTE, item, timestamp, replace)

PoolQueueAddItem(p, queue_id, item, timestamp, suffix) ==
  PoolSet(p, CollectionMakeURN(queue_id, timestamp, suffix, "Records"),
          COLLECTION_ATTRIBUTE, item, timestamp, TRUE)

RECURSIVE PoolQueueRefreshClaims(_, _, _)
PoolQueueRefreshClaims(p, records, expiration) ==
  IF records = <<>> THEN p
  ELSE PoolQueueRefreshClaims(
         PoolSet(p, RecordURN(Head(records)), QUEUE_LOCK_ATTRIBUTE, expiration,
                 None, TRUE),
         Tail(records), expiration)

RECURSIVE PoolQueueDeleteRecords(_, _)
PoolQueueDeleteRecords(p, records) ==
  IF records = <<>> THEN p
  ELSE PoolQueueDeleteRecords(
         PoolDeleteAttributes(p, RecordURN(Head(records)),
                              {QUEUE_LOCK_ATTRIBUTE, COLLECTION_ATTRIBUTE}, None, None),
         Tail(records))

RECURSIVE PoolQueueReleaseRecords(_, _)
PoolQueueReleaseRecords(p, records) ==
  IF records = <<>> THEN p
  ELSE PoolQueueReleaseRecords(
         PoolDeleteAttributes(p, RecordURN(Head(records)), {QUEUE_LOCK_ATTRIBUTE},
                              None, None),
         Tail(records))

PoolQueueDeleteTasks(p, queue, tasks) ==
  PoolDeleteAttributes(p, queue,
                       {QueueTaskIdToColumn(tasks[i].task_id) : i \in DOMAIN tasks},
                       None, None)

\* to_schedule of one queue: a later task with the same task_id replaces the
\* earlier dict entry.
ToSchedule(tasks, queue) ==
  LET mine == {i \in DOMAIN tasks : tasks[i].queue = queue}
      last(col) == CHOOSE i \in mine :
                     /\ QueueTaskIdToColumn(tasks[i].task_id) = col
                     /\ \A j \in mine :
                          QueueTaskIdToColumn(tasks[j].task_id) = col => j <= i
  IN  [col \in {QueueTaskIdToColumn(tasks[i].task_id) : i \in mine} |->
         <<[val |-> tasks[last(col)], ts |-> None]>>]

RECURSIVE ScheduleQueues(_, _, _, _)
ScheduleQueues(p, queues, tasks, timestamp) ==
  IF queues = {} THEN p
  ELSE LET q == CHOOSE x \in queues : TRUE
       IN  ScheduleQueues(
             PoolMultiSet(p, Subj(q), ToSchedule(tasks, q), timestamp, TRUE, {}),
             queues \ {q}, tasks, timestamp)

PoolQueueScheduleTasks(p, tasks, timestamp) ==
  ScheduleQueues(p, {tasks[i].queue : i \in DOMAIN tasks}, tasks, timestamp)

CollectionAddItem(w, collection_id, item, timestamp, suffix, replace) ==
  Buffer(w, PoolCollectionAddItem(pool[w], collection_id, item, timestamp, suffix,
                                  replace), "CollectionAddItem")

QueueAddItem(w, queue_id, item, timestamp, suffix) ==
  Buffer(w, PoolQueueAddItem(pool[w], queue_id, item, timestamp, suffix),
         "QueueAddItem")

QueueRefreshClaims(w, records, timeout) ==
  Buffer(w, PoolQueueRefreshClaims(pool[w], records,
                                   Now(clock) + timeout * MicrosPerSec),
         "QueueRefreshClaims")

QueueDeleteRecords(w, records) ==
  Buffer(w, PoolQueueDeleteRecords(pool[w], records), "QueueDeleteRecords")

QueueReleaseRecords(w, records) ==
  Buffer(w, PoolQueueReleaseRecords(pool[w], records), "QueueReleaseRecords")

QueueDeleteTasks(w, queue, tasks) ==
  Buffer(w, PoolQueueDeleteTasks(pool[w], queue, tasks), "QueueDeleteTasks")

QueueScheduleTasks(w, tasks, timestamp) ==
  Buffer(w, PoolQueueScheduleTasks(pool[w], tasks, timestamp), "QueueScheduleTasks")

Task(queue, task_id, task_ttl, priority) ==
  [queue |-> queue, task_id |-> task_id, task_ttl |-> task_ttl,
   priority |-> priority, eta |-> 0, last_lease |-> NoWorker]

(***************************************************************************)
(* The pool on its own: one caller issues the buffering calls in any       *)
(* order, flushes, and uses the pool as a context manager.                 *)
(***************************************************************************)
PoolCaller == "w1"
PoolSubject == Subj("S")
PoolAttr == <<"x:", 1>>
PoolValues == [a \in {PoolAttr} |-> <<[val |-> 1, ts |-> None]>>]
PoolRecord == Record("R", MicrosPerSec, 1, "Records", 7)
PoolTask == Task("Q", 1, MaxTTL, 0)
PoolNotification == [session_id |-> 1, timestamp |-> MicrosPerSec]

NextPool ==
  \/ DeleteSubject(PoolCaller, PoolSubject)
  \/ \E replace \in BOOLEAN :
       MultiSet(PoolCaller, PoolSubject, PoolValues, None, replace, {})
  \/ Set(PoolCaller, PoolSubject, PoolAttr, 2, None, TRUE)
  \/ DeleteAttributes(PoolCaller, PoolSubject, {PoolAttr}, None, None)
  \/ CreateNotifications(PoolCaller, Subj("N"), <<PoolNotification>>)
  \/ \E k \in 0..(MaxPending + 2) : Flush(PoolCaller, k)
  \/ Enter(PoolCaller)
  \/ \E k \in 0..(MaxPending + 2), inner \in BOOLEAN : Exit(PoolCaller, k, inner)

SpecPool == Init /\ [][NextPool]_vars

(***************************************************************************)
(* Every buffering call of the pool, against a store that only Flush       *)
(* writes.                                                                 *)
(***************************************************************************)
NextBuffer ==
  \/ DeleteSubject(PoolCaller, PoolSubject)
  \/ DeleteSubjects(PoolCaller, <<PoolSubject, Subj("Q")>>)
  \/ MultiSet(PoolCaller, PoolSubject, PoolValues, None, TRUE, {})
  \/ Set(PoolCaller, PoolSubject, PoolAttr, 2, None, TRUE)
  \/ DeleteAttributes(PoolCaller, PoolSubject, {PoolAttr}, None, None)
  \/ CreateNotifications(PoolCaller, Subj("N"), <<PoolNotification>>)
  \/ CollectionAddItem(PoolCaller, "C", 5, MicrosPerSec, 1, TRUE)
  \/ QueueAddItem(PoolCaller, "R", 7, MicrosPerSec, 1)
  \/ QueueRefreshClaims(PoolCaller, <<PoolRecord>>, 1)
  \/ QueueReleaseRecords(PoolCaller, <<PoolRecord>>)
  \/ QueueDeleteRecords(PoolCaller, <<PoolRecord>>)
  \/ QueueDeleteTasks(PoolCaller, Subj("Q"), <<PoolTask>>)
  \/ QueueScheduleTasks(PoolCaller, <<PoolTask>>, MicrosPerSec)
  \/ Flush(PoolCaller, 0)

SpecBuffer == Init /\ [][NextBuffer]_vars

\* A producer's "with data_store.DB.GetMutationPool() as pool:" scope that
\* has buffered p and is left without an error: __exit__ flushes p.
InScope(p) ==
  LET calls == FlushCalls(p)
      db    == ApplyCalls([store |-> store, dirty |-> dirty], Now(clock), calls)
  IN  /\ store' = db.store
      /\ dirty' = db.dirty
      /\ ret' = [op |-> "__exit__", w |-> NoWorker, exc |-> FALSE,
                 calls |-> [i \in DOMAIN calls |-> calls[i].op]]

(***************************************************************************)
(* The task queue.                                                         *)
(***************************************************************************)
\* rdf_flows.GrrMessage.max_ttl: the task_ttl of a task that was never claimed.
max_ttl == MaxTTL

\* No increments of the two statistics counters.
NoCounts == [grr_task_ttl_expired_count |-> 0, grr_task_retransmission_count |-> 0]

\* A test that takes every claim for a retransmission.
RetransmittedAlways(task_ttl) == TRUE

\* The test of _QueueQueryAndOwn on the decremented task_ttl: this claim is
\* not the first transmission of the task.
Retransmitted(task_ttl) == task_ttl # max_ttl - 1

\* The loop of _QueueQueryAndOwn over the resolved cells, from cell i on; acc
\* holds tasks, delete_attrs and serialized_tasks_dict, and the increments of
\* grr_task_ttl_expired_count and grr_task_retransmission_count made so far.
RECURSIVE QueryAndOwnLoopKeepsZero(_, _, _, _, _)
QueryAndOwnLoopKeepsZero(cells, i, limit, user, acc) ==
  IF i > Len(cells) THEN acc
  ELSE LET c    == cells[i]
           task == [c.val EXCEPT !.eta = c.ts, !.last_lease = user,
                                 !.task_ttl = @ - 1]
       IN  IF task.task_ttl < 0
             THEN QueryAndOwnLoopKeepsZero(cells, i + 1, limit, user,
                    [acc EXCEPT !.delete_attrs = @ \cup {c.attr},
                                !.grr_task_ttl_expired_count = @ + 1])
             ELSE LET d    == acc.serialized_tasks_dict
                      next == [acc EXCEPT
                                 !.serialized_tasks_dict =
                                    [a \in DOMAIN d \cup {c.attr} |->
                                       IF a = c.attr
                                         THEN (IF a \in DOMAIN d THEN d[a] ELSE <<>>)
                                                \o <<[val |-> task, ts |-> None]>>
                                         ELSE d[a]],
                                 !.tasks = Append(@, task),
                                 !.grr_task_retransmission_count =
                                    IF Retransmitted(task.task_ttl) THEN @ + 1 ELSE @]
                  IN  IF Len(next.tasks) >= limit THEN next
                      ELSE QueryAndOwnLoopKeepsZero(cells, i + 1, limit, user, next)

RECURSIVE QueryAndOwnLoop(_, _, _, _, _)
QueryAndOwnLoop(cells, i, limit, user, acc) ==
  IF i > Len(cells) THEN acc
  ELSE LET c    == cells[i]
           task == [c.val EXCEPT !.eta = c.ts, !.last_lease = user,
                                 !.task_ttl = @ - 1]
       IN  IF task.task_ttl <= 0
             THEN QueryAndOwnLoop(cells, i + 1, limit, user,
                    [acc EXCEPT !.delete_attrs = @ \cup {c.attr},
                                !.grr_task_ttl_expired_count = @ + 1])
             ELSE LET d    == acc.serialized_tasks_dict
                      next == [acc EXCEPT
                                 !.serialized_tasks_dict =
                                    [a \in DOMAIN d \cup {c.attr} |->
                                       IF a = c.attr
                                         THEN (IF a \in DOMAIN d THEN d[a] ELSE <<>>)
                                                \o <<[val |-> task, ts |-> None]>>
                                         ELSE d[a]],
                                 !.tasks = Append(@, task),
                                 !.grr_task_retransmission_count =
                                    IF Retransmitted(task.task_ttl) THEN @ + 1 ELSE @]
                  IN  IF Len(next.tasks) >= limit THEN next
                      ELSE QueryAndOwnLoop(cells, i + 1, limit, user, next)

\* The upper end of the time range of the read: timestamp or Now().
UpperBound(timestamp, now) == IF timestamp = None \/ timestamp = 0 THEN now ELSE timestamp

QueryAndOwnCellsAllTimes(st, subject, timestamp, now) ==
  ResolvePrefix(st, subject, QUEUE_TASK_PREDICATE_PREFIX, None, None)

\* The cells _QueueQueryAndOwn reads.
QueryAndOwnCells(st, subject, timestamp, now) ==
  ResolvePrefix(st, subject, QUEUE_TASK_PREDICATE_PREFIX, 0,
                UpperBound(timestamp, now))

\* _QueueQueryAndOwn: the tasks it returns and the pool it leaves.
QueryAndOwn(st, p, subject, lease_seconds, limit, user, timestamp, now) ==
  LET lease == lease_seconds * MicrosPerSec
      r == QueryAndOwnLoop(QueryAndOwnCells(st, subject, timestamp, now), 1, limit,
                           user,
                           [tasks |-> <<>>, delete_attrs |-> {},
                            serialized_tasks_dict |-> <<>>,
                            grr_task_ttl_expired_count |-> 0,
                            grr_task_retransmission_count |-> 0])
  IN  [tasks |-> r.tasks,
       stats |-> [grr_task_ttl_expired_count |-> r.grr_task_ttl_expired_count,
                  grr_task_retransmission_count |-> r.grr_task_retransmission_count],
       delete_attrs |-> r.delete_attrs,
       pool  |-> IF r.delete_attrs # {} \/ DOMAIN r.serialized_tasks_dict # {}
                   THEN PoolMultiSet(p, subject, r.serialized_tasks_dict,
                                     now + lease, TRUE, r.delete_attrs)
                   ELSE p]

\* A lock that can be taken whatever the stored expiry is.
LockFreeAlways(l, now) == TRUE

\* A lock that only a Release frees: an expiry that has passed still holds.
LockFreeReleasedOnly(l, now) == l.holder = NoWorker

\* The subject lock (modelled from its contract): an acquisition succeeds when
\* no unexpired expiry is stored.
LockFree(l, now) == l.expires <= now

\* The try block of QueueQueryAndOwn once the lock is obtained, and its
\* "except Error": the read is the only backend call, so a failed call has
\* buffered nothing.
TryQueryAndOwnKeepsWrites(st, p, subject, lease_seconds, limit, user, timestamp, now, fail) ==
  LET r == QueryAndOwn(st, p, subject, lease_seconds, limit, user, timestamp, now)
  IN  IF fail THEN [tasks |-> <<>>, stats |-> NoCounts, delete_attrs |-> {}, pool |-> r.pool] ELSE r

TryQueryAndOwn(st, p, subject, lease_seconds, limit, user, timestamp, now, fail) ==
  IF fail THEN [tasks |-> <<>>, stats |-> NoCounts, delete_attrs |-> {}, pool |-> p]
  ELSE QueryAndOwn(st, p, subject, lease_seconds, limit, user, timestamp, now)

TaskIdsOf(tasks) == {tasks[i].task_id : i \in DOMAIN tasks}

\* QueueQueryAndOwn, from the attempt of LockRetryWrapper that obtains the
\* lock to the return.  fail = TRUE: the backend raises Error while the tasks
\* are resolved.  The lock object is unreferenced once the call has returned.
QueueQueryAndOwn(w, queue, lease_seconds, limit, timestamp, fail) ==
  LET now == Now(clock)
      r   == TryQueryAndOwn(store, pool[w], Subj(queue), lease_seconds, limit, w,
                            timestamp, now, fail)
      got == r.tasks
      read == TaskIdsOf(got) \cup {a[2] : a \in r.delete_attrs}
  IN  /\ retry[w] < retrywrap_max_timeout
      /\ clock >= wake[w]
      /\ LockFree(lock, now)
      /\ lock' = [expires |-> now + lease_seconds * MicrosPerSec, holder |-> w]
      /\ garbage' = [garbage EXCEPT ![w] = TRUE]
      /\ retry' = [retry EXCEPT ![w] = 0]
      /\ pool' = [pool EXCEPT ![w] = r.pool]
      /\ ret' = [op |-> "QueueQueryAndOwn", w |-> w, val |-> got,
                 exc |-> IF fail THEN "Error" ELSE "", stats |-> r.stats]
      /\ leaseEnd' = [t \in TaskIds |->
                        IF t \in TaskIdsOf(got)
                          THEN now + lease_seconds * MicrosPerSec ELSE leaseEnd[t]]
      /\ leaseBy' = [t \in TaskIds |-> IF t \in TaskIdsOf(got) THEN w ELSE leaseBy[t]]
      /\ claims' = [t \in TaskIds |->
                      IF t \in read THEN Min(claims[t] + 1, MaxTTL + 1) ELSE claims[t]]
      /\ UNCHANGED <<store, dirty, inScope, wake, lockObject, clock, flusher, recGhost>>

\* An attempt of LockRetryWrapper that finds the lock held: the retry counter
\* grows and the caller sleeps.
LockRetry(w) ==
  /\ retry[w] < retrywrap_max_timeout
  /\ clock >= wake[w]
  /\ ~LockFree(lock, Now(clock))
  /\ retry' = [retry EXCEPT ![w] = @ + retrywrap_timeout]
  /\ wake' = [wake EXCEPT ![w] = clock + retrywrap_timeout]
  /\ ret' = [op |-> "LockRetry", w |-> w]
  /\ UNCHANGED <<store, dirty, pool, inScope, lock, garbage, lockObject, clock, flusher, ghostVars>>

\* LockRetryWrapper gives up; QueueQueryAndOwn catches DBSubjectLockError and
\* returns the empty list.
LockGiveUp(w) ==
  /\ retry[w] >= retrywrap_max_timeout
  /\ clock >= wake[w]
  /\ retry' = [retry EXCEPT ![w] = 0]
  /\ ret' = [op |-> "QueueQueryAndOwn", w |-> w, val |-> <<>>,
             exc |-> "DBSubjectLockError", stats |-> NoCounts]
  /\ UNCHANGED <<store, dirty, pool, inScope, lock, garbage, wake, lockObject, clock, flusher, ghostVars>>

\* DBSubjectLock.__del__ of the unreferenced lock object: Release, which
\* removes the expiry this object installed.
LockDel(w) ==
  /\ garbage[w]
  /\ garbage' = [garbage EXCEPT ![w] = FALSE]
  /\ lock' = IF lock.holder = w THEN [expires |-> 0, holder |-> NoWorker] ELSE lock
  /\ UNCHANGED <<store, dirty, pool, inScope, retry, wake, lockObject, clock, flusher, ret, ghostVars>>

\* list.sort(key=priority, reverse=True): stable.
RECURSIVE SortByPriority(_)
SortByPriority(tasks) ==
  IF tasks = <<>> THEN <<>>
  ELSE LET rest == SortByPriority(Tail(tasks))
           h    == Head(tasks)
           k    == Cardinality({i \in DOMAIN rest : rest[i].priority > h.priority})
       IN  SubSeq(rest, 1, k) \o <<h>> \o SubSeq(rest, k + 1, Len(rest))

\* The tasks of the cells, each with eta set to its cell's timestamp.
TasksOfCells(cells) == [i \in DOMAIN cells |-> [cells[i].val EXCEPT !.eta = cells[i].ts]]

\* QueryTasks with the slice taken before the sort.
QueryTasksLimitFirst(st, queue, limit) ==
  LET all_tasks == TasksOfCells(
                     ResolvePrefix(st, Subj(queue), QUEUE_TASK_PREDICATE_PREFIX,
                                   None, None))
  IN  SortByPriority(SubSeq(all_tasks, 1, Min(limit, Len(all_tasks))))

QueryTasks(st, queue, limit) ==
  LET all_tasks == SortByPriority(TasksOfCells(
                     ResolvePrefix(st, Subj(queue), QUEUE_TASK_PREDICATE_PREFIX,
                                   None, None)))
  IN  SubSeq(all_tasks, 1, Min(limit, Len(all_tasks)))

\* The enumerations of a finite set.
Orders(S) ==
  {seq \in [1..Cardinality(S) -> S] :
     \A i, j \in 1..Cardinality(S) : i # j => seq[i] # seq[j]}

\* MultiResolvePrefix: per subject that has matching cells, those cells in an
\* order the backend chooses.
DbMultiResolvePrefix(st, subjects, prefix, start, end) ==
  LET found == {x \in subjects : DbPrefixCells(st, x, prefix, start, end) # {}}
  IN  {raw \in [found -> UNION {Orders(DbPrefixCells(st, x, prefix, start, end)) :
                                  x \in found}] :
         \A x \in found : raw[x] \in Orders(DbPrefixCells(st, x, prefix, start, end))}

MultiQuery(raw) == [q \in DOMAIN raw |-> SortByPriority(TasksOfCells(raw[q]))]

ReadOnly(w, op, val) ==
  /\ Idle(w)
  /\ ret' = [op |-> op, w |-> w, val |-> val]
  /\ UNCHANGED <<store, dirty, pool, inScope, lockVars, clock, flusher, ghostVars>>

QueueQueryTasks(w, queue, limit) ==
  ReadOnly(w, "QueueQueryTasks",
           [queue |-> queue, limit |-> limit, tasks |-> QueryTasks(store, queue, limit)])

QueueMultiQuery(w, queues) ==
  \E raw \in DbMultiResolvePrefix(store, {Subj(q) : q \in queues},
                                  QUEUE_TASK_PREDICATE_PREFIX, None, None) :
    ReadOnly(w, "QueueMultiQuery", MultiQuery(raw))

(***************************************************************************)
(* The records queue.                                                      *)
(***************************************************************************)
RECURSIVE SortLeaves(_)
SortLeaves(S) ==
  IF S = {} THEN <<>>
  ELSE LET m == CHOOSE x \in S : \A y \in S : x = y \/ LexLess(x, y)
       IN  <<m>> \o SortLeaves(S \ {m})

\* The newest cell of attribute a in the row of subject s.
Newest(st, s, a) ==
  CHOOSE c \in st : /\ c.subj = s /\ c.attr = a
                    /\ \A d \in st : (d.subj = s /\ d.attr = a) => d.ts <= c.ts

\* ScanAttributes: the rows below subject_prefix that hold one of the
\* attributes and come after after_urn, in lexicographic order, at most
\* max_records of them; per row the newest (timestamp, value) of each
\* attribute it holds.  after is the last path segment of after_urn, empty
\* when after_urn is None.
ScanRow(st, s, attributes) ==
  [subject |-> s,
   values  |-> [a \in {c.attr : c \in {d \in st : d.subj = s /\ d.attr \in attributes}} |->
                  Newest(st, s, a)]]

ScanRows(st, base, sub, attributes, leaves, max_records) ==
  [i \in 1..Min(max_records, Len(leaves)) |->
     ScanRow(st, [base |-> base, sub |-> sub, leaf |-> leaves[i]], attributes)]

DbScanAttributes(st, base, sub, attributes, after, max_records) ==
  ScanRows(st, base, sub, attributes,
           SortLeaves({c.subj.leaf :
                         c \in {d \in st : /\ d.subj.base = base /\ d.subj.sub = sub
                                           /\ d.attr \in attributes
                                           /\ LexLess(after, d.subj.leaf)}}),
           max_records)

\* The loop of QueueClaimRecords over the scanned rows, from row i on; acc
\* holds results, the pool and filtered_count.  record_filter is the set of
\* the values it rejects.
LeaseHeldNever(values, now) == FALSE

LeaseHeldInclusive(values, now) ==
  /\ QUEUE_LOCK_ATTRIBUTE \in DOMAIN values
  /\ values[QUEUE_LOCK_ATTRIBUTE].val >= now

\* The row carries a lease whose stored expiry is after now.
LeaseHeld(values, now) ==
  /\ QUEUE_LOCK_ATTRIBUTE \in DOMAIN values
  /\ values[QUEUE_LOCK_ATTRIBUTE].val > now

\* The loop with a filtered_count that an accepted record does not reset.
RECURSIVE ClaimLoopNoReset(_, _, _, _, _, _, _, _, _)
ClaimLoopNoReset(rows, i, acc, queue_id, now, expiration, limit, record_filter, max_filtered) ==
  IF i > Len(rows) THEN acc
  ELSE
    LET subject == rows[i].subject
        values  == rows[i].values
        next(a) == ClaimLoopNoReset(rows, i + 1, a, queue_id, now, expiration, limit,
                             record_filter, max_filtered)
    IN  IF COLLECTION_ATTRIBUTE \notin DOMAIN values
          THEN next([acc EXCEPT !.pool = PoolDeleteAttributes(
                                            @, subject, {QUEUE_LOCK_ATTRIBUTE}, None, None)])
        ELSE IF LeaseHeld(values, now)
          THEN next(acc)
        ELSE IF values[COLLECTION_ATTRIBUTE].val \in record_filter
          THEN LET a == [acc EXCEPT !.filtered_count = @ + 1]
               IN  IF max_filtered \notin {0, None} /\ a.filtered_count >= max_filtered
                     THEN a ELSE next(a)
        ELSE LET a == [acc EXCEPT
                         !.results = Append(@, Record(queue_id,
                                                      values[COLLECTION_ATTRIBUTE].ts,
                                                      SuffixOf(subject), "Records",
                                                      values[COLLECTION_ATTRIBUTE].val)),
                         !.pool = PoolSet(@, subject, QUEUE_LOCK_ATTRIBUTE, expiration,
                                          None, TRUE)]
             IN  IF Len(a.results) >= limit THEN a ELSE next(a)

\* The loop that passes over a row without an item and leaves its lease.
RECURSIVE ClaimLoopKeepsDangling(_, _, _, _, _, _, _, _, _)
ClaimLoopKeepsDangling(rows, i, acc, queue_id, now, expiration, limit, record_filter, max_filtered) ==
  IF i > Len(rows) THEN acc
  ELSE
    LET subject == rows[i].subject
        values  == rows[i].values
        next(a) == ClaimLoopKeepsDangling(rows, i + 1, a, queue_id, now, expiration, limit,
                             record_filter, max_filtered)
    IN  IF COLLECTION_ATTRIBUTE \notin DOMAIN values
          THEN next(acc)
        ELSE IF LeaseHeld(values, now)
          THEN next(acc)
        ELSE IF values[COLLECTION_ATTRIBUTE].val \in record_filter
          THEN LET a == [acc EXCEPT !.filtered_count = @ + 1]
               IN  IF max_filtered \notin {0, None} /\ a.filtered_count >= max_filtered
                     THEN a ELSE next(a)
        ELSE LET a == [acc EXCEPT
                         !.results = Append(@, Record(queue_id,
                                                      values[COLLECTION_ATTRIBUTE].ts,
                                                      SuffixOf(subject), "Records",
                                                      values[COLLECTION_ATTRIBUTE].val)),
                         !.pool = PoolSet(@, subject, QUEUE_LOCK_ATTRIBUTE, expiration,
                                          None, TRUE),
                         !.filtered_count = 0]
             IN  IF Len(a.results) >= limit THEN a ELSE next(a)

RECURSIVE ClaimLoop(_, _, _, _, _, _, _, _, _)
ClaimLoop(rows, i, acc, queue_id, now, expiration, limit, record_filter, max_filtered) ==
  IF i > Len(rows) THEN acc
  ELSE
    LET subject == rows[i].subject
        values  == rows[i].values
        next(a) == ClaimLoop(rows, i + 1, a, queue_id, now, expiration, limit,
                             record_filter, max_filtered)
    IN  IF COLLECTION_ATTRIBUTE \notin DOMAIN values
          THEN next([acc EXCEPT !.pool = PoolDeleteAttributes(
                                            @, subject, {QUEUE_LOCK_ATTRIBUTE}, None, None)])
        ELSE IF LeaseHeld(values, now)
          THEN next(acc)
        ELSE IF values[COLLECTION_ATTRIBUTE].val \in record_filter
          THEN LET a == [acc EXCEPT !.filtered_count = @ + 1]
               IN  IF max_filtered \notin {0, None} /\ a.filtered_count >= max_filtered
                     THEN a ELSE next(a)
        ELSE LET a == [acc EXCEPT
                         !.results = Append(@, Record(queue_id,
                                                      values[COLLECTION_ATTRIBUTE].ts,
                                                      SuffixOf(subject), "Records",
                                                      values[COLLECTION_ATTRIBUTE].val)),
                         !.pool = PoolSet(@, subject, QUEUE_LOCK_ATTRIBUTE, expiration,
                                          None, TRUE),
                         !.filtered_count = 0]
             IN  IF Len(a.results) >= limit THEN a ELSE next(a)

\* The rows QueueClaimRecords scans; start_time = None or 0: from the start.
ClaimRows(st, queue_id, limit, start_time) ==
  DbScanAttributes(st, queue_id, "Records",
                   {COLLECTION_ATTRIBUTE, QUEUE_LOCK_ATTRIBUTE},
                   IF start_time = None \/ start_time = 0 THEN <<>>
                   ELSE CollectionMakeURN(queue_id, start_time, 0, "Records").leaf,
                   4 * limit)

\* QueueClaimRecords: the records it returns and the pool it leaves.
ClaimRecords(st, p, queue_id, limit, timeout, start_time, record_filter, max_filtered, now) ==
  ClaimLoop(ClaimRows(st, queue_id, limit, start_time), 1,
            [results |-> <<>>, pool |-> p, filtered_count |-> 0],
            queue_id, now, now + timeout * MicrosPerSec, limit, record_filter,
            max_filtered)

SuffixesOf(records) == {records[i].suffix : i \in DOMAIN records}

QueueClaimRecords(w, queue_id, limit, timeout, start_time, record_filter, max_filtered) ==
  \E r \in {ClaimRecords(store, pool[w], queue_id, limit, timeout, start_time,
                          record_filter, max_filtered, Now(clock))} :
    \E got \in {SuffixesOf(r.results)} :
      /\ Idle(w)
      /\ pool' = [pool EXCEPT ![w] = r.pool]
      /\ ret' = [op |-> "QueueClaimRecords", w |-> w, val |-> r.results]
      /\ recLease' = [x \in RecSuffixes |->
                        IF x \in got THEN Now(clock) + timeout * MicrosPerSec
                        ELSE recLease[x]]
      /\ recBy' = [x \in RecSuffixes |-> IF x \in got THEN w ELSE recBy[x]]
      /\ UNCHANGED <<store, dirty, inScope, lockVars, clock, flusher, taskGhost>>

\* with data_store.DB.GetMutationPool() as pool: pool.QueueAddItem(...) by a
\* producer whose scope is left without an error; suffix is the suffix drawn.
AddInScope(queue_id, item, timestamp, suffix) ==
  /\ InScope(PoolQueueAddItem(EmptyPool, queue_id, item, timestamp, suffix))
  /\ recLease' = [recLease EXCEPT ![suffix] = 0]
  /\ recBy' = [recBy EXCEPT ![suffix] = NoWorker]
  /\ UNCHANGED <<pool, inScope, lockVars, clock, flusher, taskGhost>>

(***************************************************************************)
(* Two workers on one task queue, each with a pool of its own.             *)
(***************************************************************************)
TaskQueue == "Q"

\* The caller runs each claim in a scope of its own: the pool it claims with
\* holds nothing from before.
Flushed(w) == Pending(pool[w]) = 0
Leases == {2}
Limits == 0..2
Priorities == 0..1

\* with data_store.DB.GetMutationPool() as pool: pool.QueueScheduleTasks(...)
\* by a producer whose scope is left without an error.
ScheduleInScope(tasks, timestamp) ==
  /\ InScope(PoolQueueScheduleTasks(EmptyPool, tasks, timestamp))
  /\ leaseEnd' = [t \in TaskIds |-> IF t \in TaskIdsOf(tasks) THEN 0 ELSE leaseEnd[t]]
  /\ leaseBy' = [t \in TaskIds |->
                   IF t \in TaskIdsOf(tasks) THEN NoWorker ELSE leaseBy[t]]
  /\ claims' = [t \in TaskIds |-> IF t \in TaskIdsOf(tasks) THEN 0 ELSE claims[t]]
  /\ UNCHANGED <<pool, inScope, lockVars, clock, flusher, recGhost>>

NextTasks ==
  \/ ScheduleInScope(<<Task(TaskQueue, 1, MaxTTL, 0)>>, Now(clock))
  \/ \E w \in Workers, lease \in Leases, timestamp \in {None, Now(clock + 1)} :
       /\ Flushed(w)
       /\ QueueQueryAndOwn(w, TaskQueue, lease, 1, timestamp, FALSE)
  \/ \E w \in Workers : LockDel(w)
  \/ \E w \in Workers : Flush(w, 0)
  \/ Tick

SpecTasks == Init /\ [][NextTasks]_vars

(***************************************************************************)
(* Two workers claiming from one records queue, each with a pool of its    *)
(* own that holds nothing from before when it claims.                      *)
(***************************************************************************)
RecQueue == "R"
ItemOf(suffix) == IF suffix = 1 THEN "a" ELSE "b"
Timeouts == {1}

\* The suffixes of the records in the store.
StoredSuffixes(st) ==
  {SuffixOf(c.subj) : c \in {d \in st : d.subj.base = RecQueue /\ d.subj.sub = "Records"}}

NextRecords ==
  \/ \E suffix \in RecSuffixes :
       /\ suffix \notin StoredSuffixes(store)
       /\ AddInScope(RecQueue, ItemOf(suffix), Now(suffix - 1), suffix)
  \/ \E w \in Workers, limit \in 1..2, timeout \in Timeouts,
        start_time \in {None, Now(1)}, record_filter \in {{}, {"a"}},
        max_filtered \in {1} :
       /\ Flushed(w)
       /\ QueueClaimRecords(w, RecQueue, limit, timeout, start_time, record_filter,
                            max_filtered)
  \/ \E w \in Workers : Flush(w, 0)
  \/ Advance(MaxRecordsClock)

SpecRecords == Init /\ [][NextRecords]_vars

(***************************************************************************)
(* Read-only queries of two queues holding tasks of several priorities.    *)
(***************************************************************************)
Queues == {TaskQueue, "Q2"}

NextQuery ==
  \/ \E queue \in Queues, id \in TaskIds, prio \in Priorities :
       ScheduleInScope(<<Task(queue, id, MaxTTL, prio)>>, Now(clock))
  \/ \E w \in Workers, queue \in Queues, limit \in Limits :
       QueueQueryTasks(w, queue, limit)
  \/ \E w \in Workers, queues \in SUBSET Queues : QueueMultiQuery(w, queues)

SpecQuery == Init /\ [][NextQuery]_vars

(***************************************************************************)
(* Contention for the queue lock: leases long enough to outlast the retry  *)
(* budget of LockRetryWrapper, and reads that the backend may fail.        *)
(***************************************************************************)
LockLeases == {retrywrap_max_timeout}
MaxWait == retrywrap_max_timeout + retrywrap_timeout
Holder == "w1"
Contender == "w2"

NextLock ==
  \/ ScheduleInScope(<<Task(TaskQueue, 1, MaxTTL, 0)>>, Now(0))
  \/ \E lease \in LockLeases, fail \in BOOLEAN :
       /\ Flushed(Holder)
       /\ QueueQueryAndOwn(Holder, TaskQueue, lease, 1, None, fail)
  \/ LockDel(Holder)
  \/ Flush(Holder, 0)
  \/ LockRetry(Contender)
  \/ LockGiveUp(Contender)
  \/ Advance(MaxWait)

SpecLock == Init /\ [][NextLock]_vars

(***************************************************************************)
(* Repeated claims of one task, each made once every pool is flushed and   *)
(* reading up to Now(), so that a leased task is read again only when its  *)
(* lease has elapsed.                                                      *)
(***************************************************************************)
AllFlushed == \A w \in Workers : Flushed(w)
ShortLeases == {1}

NextTTL ==
  \/ /\ AllFlushed
     /\ ScheduleInScope(<<Task(TaskQueue, 1, MaxTTL, 0)>>, Now(clock))
  \/ \E w \in Workers, lease \in ShortLeases :
       /\ AllFlushed
       /\ QueueQueryAndOwn(w, TaskQueue, lease, 1, None, FALSE)
  \/ \E w \in Workers : LockDel(w)
  \/ \E w \in Workers : Flush(w, 0)
  \/ Tick

SpecTTL == Init /\ [][NextTTL]_vars

(***************************************************************************)
(* Claims about the mutation pool.                                         *)
(***************************************************************************)
FlushOps == {"Flush", "__exit__", "__exit__exc"}
ExitOps == {"__exit__", "__exit__exc"}

Count(seq, x) == Cardinality({i \in DOMAIN seq : seq[i] = x})

\* The backend call a Flush of pool p makes at position i.
ExpectedCall(p, i) ==
  LET nda == Len(p.delete_attributes_requests)
      nms == Len(p.set_requests)
      any == \/ p.delete_subject_requests # <<>>
             \/ p.delete_attributes_requests # <<>>
             \/ p.set_requests # <<>>
  IN  IF i = 1 THEN "DeleteSubjects"
      ELSE IF i <= 1 + nda THEN "DeleteAttributes"
      ELSE IF i <= 1 + nda + nms THEN "MultiSet"
      ELSE IF any /\ i = 2 + nda + nms THEN "Flush"
      ELSE "CreateNotifications"

ExpectedLen(p) ==
  1 + Len(p.delete_attributes_requests) + Len(p.set_requests)
    + (IF Size(p) = 0 THEN 0 ELSE 1) + Len(p.new_notifications)

\* C1: whatever the order in which the requests were buffered, a Flush calls
\* the backend in the order subject deletions, attribute deletions, MultiSets,
\* one backend Flush exactly when one of the three lists is non-empty, and
\* only then the notification batches; a Flush that returns has made all of
\* these calls, so no notification is created before the pool's data mutations
\* are dispatched and flushed.
C1_FlushOrder ==
  [][(ret'.op \in FlushOps /\ clock' = clock) =>
       LET p == pool[ret'.w]
           L == ret'.calls
       IN  /\ \A i \in DOMAIN L : L[i] = ExpectedCall(p, i)
           /\ Len(L) <= ExpectedLen(p)
           /\ ~ret'.exc => Len(L) = ExpectedLen(p)
           /\ \A j \in DOMAIN L :
                L[j] = "CreateNotifications" =>
                  /\ Size(p) > 0 => \E f \in 1..(j - 1) : L[f] = "Flush"
                  /\ Count(SubSeq(L, 1, j - 1), "DeleteAttributes")
                       = Len(p.delete_attributes_requests)
                  /\ Count(SubSeq(L, 1, j - 1), "MultiSet") = Len(p.set_requests)
                  /\ L[1] = "DeleteSubjects"]_vars

\* A Flush has returned after dispatching a subject deletion, an attribute
\* deletion, a MultiSet, the backend Flush and a notification batch, and the
\* cell of the MultiSet is in the store although its subject was deleted in
\* the same Flush.
C1_Witness ==
  /\ ret.op = "Flush"
  /\ ~ret.exc
  /\ ret.calls = <<"DeleteSubjects", "DeleteAttributes", "MultiSet", "Flush",
                   "CreateNotifications">>
  /\ \E c \in store : c.subj = PoolSubject
  /\ \E c \in store : c.subj = Subj("N")

\* C2: a step that is not a Flush (or the __exit__ that flushes) leaves every
\* cell of the store as it was.
C2_BufferingLeavesStore ==
  [][ret'.op \notin FlushOps => store' = store /\ dirty' = dirty]_vars

\* A deletion of a subject and a write are buffered while the subject still
\* holds its cells.
C2_Witness ==
  /\ ret.op = "QueueScheduleTasks"
  /\ pool[PoolCaller].delete_subject_requests # <<>>
  /\ pool[PoolCaller].set_requests # <<>>
  /\ \E c \in store : c.subj = PoolSubject
  /\ ~\E c \in store : c.subj = Subj("Q")

\* C3 as stated: after every __exit__ the pool is empty.
C3_ExitLeavesPoolEmpty ==
  ret.op \in ExitOps =>
    /\ Count(ret.calls, "DeleteSubjects") = 1
    /\ Size(pool[ret.w]) = 0
    /\ pool[ret.w].new_notifications = <<>>

\* C3, amended: every __exit__, normal or by an inner exception, runs Flush
\* exactly once (one DeleteSubjects call opens every Flush); when that Flush
\* returns, Size() is 0 and no notification batch is pending.
C3_ExitFlushesOnce ==
  ret.op \in ExitOps =>
    /\ Count(ret.calls, "DeleteSubjects") = 1
    /\ ~ret.exc => /\ Size(pool[ret.w]) = 0
                   /\ pool[ret.w].new_notifications = <<>>
                   /\ ~inScope[ret.w]

\* The block was left by an exception with requests and a notification batch
\* pending, and the Flush of __exit__ has dispatched them.
C3_Witness ==
  /\ ret.op = "__exit__exc"
  /\ ~ret.exc
  /\ Len(ret.calls) >= 4
  /\ Size(pool[ret.w]) = 0
  /\ pool[ret.w].new_notifications = <<>>

(***************************************************************************)
(* Claims about the task queue.                                            *)
(***************************************************************************)
\* A call of QueueQueryAndOwn by w that obtains the lock and reads up to Now().
ClaimStep(w, timestamp) ==
  \E lease \in Leases : QueueQueryAndOwn(w, TaskQueue, lease, 1, timestamp, FALSE)

Returned(r) == TaskIdsOf(r.val)

\* Task t has been returned under a lease that has not ended.
Leased(t) == leaseBy[t] # NoWorker /\ Now(clock) < leaseEnd[t]

TaskCells(st, t) ==
  {c \in st : c.subj = Subj(TaskQueue) /\ c.attr = QueueTaskIdToColumn(t)}

C5_OneLeaseholder ==
  [][\A w \in Workers :
       ClaimStep(w, None) =>
         \A t \in Returned(ret') : ~(Leased(t) /\ leaseBy[t] \notin {NoWorker, w})]_vars

\* A call of QueueQueryAndOwn by w under the discipline of SpecTTL.
CountdownStep(w) ==
  \E lease \in ShortLeases : QueueQueryAndOwn(w, TaskQueue, lease, 1, None, FALSE)

\* The MultiSet a claim has buffered last.
LastSet(p) == p.set_requests[Len(p.set_requests)]

\* C6: with the pool flushed and the lease elapsed between claims, each claim
\* stores the task with task_ttl one lower; the claim that brings it to 0
\* deletes the attribute and does not return the task; a task scheduled with
\* TTL n is returned by at most n - 1 claims and is absent afterwards.
C6_TTLCountdown ==
  /\ [](AllFlushed =>
          \A t \in TaskIds :
            /\ \A c \in TaskCells(store, t) :
                 c.val.task_ttl = MaxTTL - claims[t] /\ c.val.task_ttl >= 1
            /\ claims[t] >= MaxTTL => TaskCells(store, t) = {})
  /\ [][\A w \in Workers :
          CountdownStep(w) =>
            \A t \in TaskIds :
              \A c \in TaskCells(store, t) :
                c.ts <= Now(clock) =>
                  IF c.val.task_ttl - 1 <= 0
                    THEN /\ t \notin Returned(ret')
                         /\ c.attr \in LastSet(pool'[w]).to_delete
                         /\ c.attr \notin DOMAIN LastSet(pool'[w]).values
                    ELSE /\ t \in Returned(ret')
                         /\ claims'[t] <= MaxTTL - 1
                         /\ LastSet(pool'[w]).values[c.attr][1].val.task_ttl
                              = c.val.task_ttl - 1
                         /\ ret'.val[1].task_ttl = c.val.task_ttl - 1]_vars

\* The task has been read MaxTTL times and is gone from the queue.
C6_Witness ==
  /\ AllFlushed
  /\ claims[1] = MaxTTL
  /\ TaskCells(store, 1) = {}
  /\ ret.op = "Flush"

\* C7: a QueueQueryAndOwn that cannot obtain the lock within the retry budget,
\* or whose read fails with Error, returns the empty list and leaves the
\* pool as it was.
C7_FailureReturnsEmpty ==
  [][\A w \in Workers :
       (\/ LockGiveUp(w)
        \/ \E lease \in LockLeases : QueueQueryAndOwn(w, TaskQueue, lease, 1, None, TRUE))
       => ret'.val = <<>> /\ pool' = pool /\ store' = store]_vars

\* The retry budget is spent while a task is readable in the queue.
C7_Witness ==
  /\ ret.op = "QueueQueryAndOwn"
  /\ ret.exc = "DBSubjectLockError"
  /\ ret.val = <<>>
  /\ Len(QueryAndOwnCells(store, Subj(TaskQueue), None, Now(clock))) > 0

\* The tasks stored on a queue, whatever their timestamps.
StoredTasks(st, queue) ==
  {[c.val EXCEPT !.eta = c.ts] :
     c \in DbPrefixCells(st, Subj(queue), QUEUE_TASK_PREDICATE_PREFIX, None, None)}

Range(seq) == {seq[i] : i \in DOMAIN seq}

NonIncreasing(tasks) ==
  \A i, j \in DOMAIN tasks : i < j => tasks[i].priority >= tasks[j].priority

\* tasks lists n distinct tasks stored on the queue, highest priorities first,
\* none of the tasks left out having a higher priority than one listed.
TopByPriority(tasks, st, queue, n) ==
  /\ Len(tasks) = n
  /\ Cardinality(Range(tasks)) = n
  /\ Range(tasks) \subseteq StoredTasks(st, queue)
  /\ NonIncreasing(tasks)
  /\ \A t \in StoredTasks(st, queue) \ Range(tasks) :
       \A i \in DOMAIN tasks : tasks[i].priority >= t.priority

\* C8: QueueQueryTasks returns the limit tasks of highest priority of the
\* queue in non-increasing priority order, QueueMultiQuery all tasks of each
\* queue in non-increasing priority order, and neither changes the store.
C8_QueriesSortByPriority ==
  /\ [](ret.op = "QueueQueryTasks" =>
          TopByPriority(ret.val.tasks, store, ret.val.queue,
                        Min(ret.val.limit,
                            Cardinality(StoredTasks(store, ret.val.queue)))))
  /\ [](ret.op = "QueueMultiQuery" =>
          \A s \in DOMAIN ret.val :
            \E queue \in Queues :
              /\ s = Subj(queue)
              /\ TopByPriority(ret.val[s], store, queue,
                               Cardinality(StoredTasks(store, queue))))
  /\ [][ret'.op \in {"QueueQueryTasks", "QueueMultiQuery"} =>
          store' = store /\ dirty' = dirty]_vars

\* A query with limit 1 of a queue whose first task in attribute order has
\* the lower priority.
C8_Witness ==
  /\ ret.op = "QueueQueryTasks"
  /\ ret.val.limit = 1
  /\ ret.val.queue = TaskQueue
  /\ \E lo, hi \in StoredTasks(store, TaskQueue) :
       /\ lo.task_id < hi.task_id
       /\ lo.priority < hi.priority
       /\ ret.val.tasks = <<hi>>

(***************************************************************************)
(* Claims about the records queue.                                         *)
(***************************************************************************)
\* A step of SpecRecords that is a call of QueueClaimRecords.
RecordsClaimStep == ret'.op = "QueueClaimRecords" /\ clock' = clock

\* The subjects of the records queue that hold a cell of attribute a.
RecordSubjects(st, a) ==
  {c.subj : c \in {d \in st : /\ d.subj.base = RecQueue /\ d.subj.sub = "Records"
                              /\ d.attr = a}}

C10_ExpiredLeaseClaimable ==
  [][\A w \in Workers, timeout \in Timeouts :
       (RecordsClaimStep /\ ret'.w = w
          /\ QueueClaimRecords(w, RecQueue, 2, timeout, None, {}, 1)) =>
         \A s \in RecordSubjects(store, COLLECTION_ATTRIBUTE)
                    \cap RecordSubjects(store, QUEUE_LOCK_ATTRIBUTE) :
           Newest(store, s, QUEUE_LOCK_ATTRIBUTE).val <= Now(clock) =>
             /\ SuffixOf(s) \in SuffixesOf(ret'.val)
             /\ \E i \in DOMAIN pool'[w].set_requests :
                  LET req == pool'[w].set_requests[i]
                  IN  /\ req.subject = s
                      /\ DOMAIN req.values = {QUEUE_LOCK_ATTRIBUTE}
                      /\ req.values[QUEUE_LOCK_ATTRIBUTE][1].val
                           = Now(clock) + timeout * MicrosPerSec]_vars

\* A record is returned again by a call made at the very time its stored
\* lease expires.
C10_Witness ==
  /\ ret.op = "QueueClaimRecords"
  /\ \E s \in RecordSubjects(store, QUEUE_LOCK_ATTRIBUTE) :
       /\ Newest(store, s, QUEUE_LOCK_ATTRIBUTE).val = Now(clock)
       /\ SuffixOf(s) \in SuffixesOf(ret.val)
       /\ recLease[SuffixOf(s)] > Now(clock)

(***************************************************************************)
(* Flow state.  The requests of a session and the status messages of its   *)
(* completed requests are cells of the session's state subject; the        *)
(* responses to a request are cells of a subject of their own.  The        *)
(* attribute flow:request:%08X is kept as <<"flow:request:", id>> and      *)
(* flow:response:%08X:%08X as <<"flow:response:", <<request, response>>>>. *)
(***************************************************************************)
FLOW_REQUEST_PREFIX == "flow:request:"
FLOW_STATUS_PREFIX == "flow:status:"
FLOW_RESPONSE_PREFIX == "flow:response:"

\* "%X" % n
RECURSIVE HexStrUpper(_)
HexStrUpper(n) ==
  LET d == n % 16
      c == IF d < 10 THEN 48 + d ELSE 55 + d
  IN  IF n < 16 THEN <<c>> ELSE HexStrUpper(n \div 16) \o <<c>>

\* "%08X" % n
HexPadUpper(n) ==
  LET s == HexStrUpper(n)
      k == 8 - Len(s)
  IN  IF k <= 0 THEN s ELSE [i \in 1..8 |-> IF i <= k THEN 48 ELSE s[i - k]]

StateSubject(session_id) == [base |-> session_id, sub |-> "state", leaf |-> <<>>]

GetFlowResponseSubject(session_id, request_id) ==
  [base |-> session_id, sub |-> "state/request:", leaf |-> HexPadUpper(request_id)]

RequestState(session_id, id) == [session_id |-> session_id, id |-> id]

GrrMessage(session_id, request_id, response_id, type) ==
  [session_id |-> session_id, request_id |-> request_id,
   response_id |-> response_id, type |-> type]

\* to_write.setdefault(subject, {}).setdefault(attribute, []).append(entry)
Put(d, subject, attribute, entry) ==
  LET q  == IF subject \in DOMAIN d THEN d[subject] ELSE <<>>
      l  == IF attribute \in DOMAIN q THEN q[attribute] ELSE <<>>
      q2 == [a \in DOMAIN q \cup {attribute} |->
               IF a = attribute THEN Append(l, entry) ELSE q[a]]
  IN  [s \in DOMAIN d \cup {subject} |-> IF s = subject THEN q2 ELSE d[s]]

\* The entries StoreRequestsAndResponses queues for the requests.
RECURSIVE WriteRequests(_, _)
WriteRequests(d, new_requests) ==
  IF new_requests = <<>> THEN d
  ELSE LET request   == Head(new_requests).request
           timestamp == Head(new_requests).timestamp
       IN  WriteRequests(Put(d, StateSubject(request.session_id),
                             <<FLOW_REQUEST_PREFIX, request.id>>,
                             [val |-> request, ts |-> timestamp]),
                         Tail(new_requests))

\* A store that marks the request of every response as complete.
WriteResponseAlwaysStatus(d, response, timestamp) ==
  Put(Put(d, StateSubject(response.session_id),
          <<FLOW_STATUS_PREFIX, response.request_id>>,
          [val |-> response, ts |-> timestamp]),
      GetFlowResponseSubject(response.session_id, response.request_id),
      <<FLOW_RESPONSE_PREFIX, <<response.request_id, response.response_id>>>>,
      [val |-> response, ts |-> timestamp])

\* The entries it queues for one response.
WriteResponse(d, response, timestamp) ==
  Put(IF response.type = "STATUS"
        THEN Put(d, StateSubject(response.session_id),
                 <<FLOW_STATUS_PREFIX, response.request_id>>,
                 [val |-> response, ts |-> timestamp])
        ELSE d,
      GetFlowResponseSubject(response.session_id, response.request_id),
      <<FLOW_RESPONSE_PREFIX, <<response.request_id, response.response_id>>>>,
      [val |-> response, ts |-> timestamp])

RECURSIVE WriteResponses(_, _)
WriteResponses(d, new_responses) ==
  IF new_responses = <<>> THEN d
  ELSE WriteResponses(WriteResponse(d, Head(new_responses).response,
                                    Head(new_responses).timestamp),
                      Tail(new_responses))

\* to_delete of StoreRequestsAndResponses: per state subject the request and
\* status attributes of the requests to delete.
ToDelete(requests_to_delete) ==
  LET subjects == {StateSubject(requests_to_delete[i].session_id) :
                     i \in DOMAIN requests_to_delete}
  IN  [s \in subjects |->
         UNION {{<<FLOW_REQUEST_PREFIX, requests_to_delete[i].id>>,
                 <<FLOW_STATUS_PREFIX, requests_to_delete[i].id>>} :
                  i \in {j \in DOMAIN requests_to_delete :
                           StateSubject(requests_to_delete[j].session_id) = s}}]

\* The MultiSet calls of StoreRequestsAndResponses, subjects in the order the
\* set set(to_write) | set(to_delete) is iterated.
StoreCalls(to_write, to_delete, order) ==
  [i \in DOMAIN order |->
     [subject   |-> order[i],
      values    |-> IF order[i] \in DOMAIN to_write THEN to_write[order[i]] ELSE <<>>,
      to_delete |-> IF order[i] \in DOMAIN to_delete THEN to_delete[order[i]] ELSE {},
      sync      |-> TRUE]]

\* DataStore.MultiSet called once per entry of calls, timestamp and replace
\* at their defaults.
RECURSIVE DbMultiSets(_, _, _)
DbMultiSets(st, now, calls) ==
  IF calls = <<>> THEN st
  ELSE DbMultiSets(DbMultiSet(st, now, Head(calls).subject, Head(calls).values,
                              None, TRUE, Head(calls).to_delete),
                   now, Tail(calls))

StoreRequestsAndResponses(new_requests, new_responses, requests_to_delete) ==
  \E to_write \in {WriteResponses(WriteRequests(<<>>, new_requests), new_responses)} :
    \E to_delete \in {ToDelete(requests_to_delete)} :
      \E order \in Orders(DOMAIN to_write \cup DOMAIN to_delete) :
        /\ store' = DbMultiSets(store, Now(clock),
                                StoreCalls(to_write, to_delete, order))
        /\ ret' = [op |-> "StoreRequestsAndResponses", w |-> NoWorker,
                   new_requests |-> new_requests,
                   new_responses |-> new_responses,
                   requests_to_delete |-> requests_to_delete,
                   calls |-> StoreCalls(to_write, to_delete, order)]
        /\ UNCHANGED <<dirty, pool, inScope, lockVars, clock, flusher, ghostVars>>

\* predicate.split(":", 3)[2] with the zero padding left out.
RequestIdUnpadded(attribute) == HexStrUpper(attribute[2])

\* predicate.split(":", 3)[2] of flow:request:%08X and flow:status:%08X.
RequestIdOf(attribute) == HexPadUpper(attribute[2])

\* sorted(requests.items()): by the request id strings.
RECURSIVE SortByRequestId(_)
SortByRequestId(S) ==
  IF S = {} THEN <<>>
  ELSE LET m == CHOOSE a \in S :
                  \A b \in S \ {a} : LexLess(RequestIdOf(a), RequestIdOf(b))
       IN  <<m>> \o SortByRequestId(S \ {m})

\* ReadCompletedRequests with timestamp and limit at their defaults.
CompletedRequests(st, session_id) ==
  LET subject  == StateSubject(session_id)
      requests == {c.attr : c \in DbPrefixCells(st, subject, FLOW_REQUEST_PREFIX,
                                                None, None)}
      status   == {RequestIdOf(c.attr) :
                     c \in DbPrefixCells(st, subject, FLOW_STATUS_PREFIX, None, None)}
      sorted   == SortByRequestId(requests)
      done     == SelectSeq(sorted, LAMBDA a : RequestIdOf(a) \in status)
  IN  [i \in DOMAIN done |->
         [request |-> Newest(st, subject, done[i]).val,
          status  |-> Newest(st, subject, <<FLOW_STATUS_PREFIX, done[i][2]>>).val]]

ReadCompletedRequests(w, session_id) ==
  ReadOnly(w, "ReadCompletedRequests",
           [session_id |-> session_id, pairs |-> CompletedRequests(store, session_id)])

DeleteRequests(requests) ==
  /\ store' = DbDeleteSubjects(store,
                [i \in DOMAIN requests |->
                   GetFlowResponseSubject(requests[i].session_id, requests[i].id)])
  /\ ret' = [op |-> "DeleteRequests", w |-> NoWorker, requests |-> requests]
  /\ UNCHANGED <<dirty, pool, inScope, lockVars, clock, flusher, ghostVars>>

\* The loop of MultiDestroyFlowStates over the subjects MultiResolvePrefix
\* delivers, in the order it delivers them.
RECURSIVE DestroyLoop(_, _, _)
DestroyLoop(raw, order, acc) ==
  IF order = <<>> THEN acc
  ELSE LET subject == Head(order)
           values  == raw[subject]
       IN  DestroyLoop(raw, Tail(order),
             [deleted_requests |->
                acc.deleted_requests \o [i \in DOMAIN values |-> values[i].val],
              to_delete |->
                acc.to_delete
                  \o [i \in DOMAIN values |->
                        GetFlowResponseSubject(values[i].val.session_id,
                                               values[i].val.id)]
                  \o <<subject>>])

\* MultiDestroyFlowStates without a request_limit.
MultiDestroyFlowStates(session_ids) ==
  \E raw \in DbMultiResolvePrefix(store,
                                  {StateSubject(session_ids[i]) : i \in DOMAIN session_ids},
                                  FLOW_REQUEST_PREFIX, None, None) :
    \E order \in Orders(DOMAIN raw) :
      \E r \in {DestroyLoop(raw, order, [deleted_requests |-> <<>>, to_delete |-> <<>>])} :
        /\ store' = DbDeleteSubjects(store, r.to_delete)
        /\ ret' = [op |-> "MultiDestroyFlowStates", w |-> NoWorker,
                   session_ids |-> session_ids, val |-> r.deleted_requests]
        /\ UNCHANGED <<dirty, pool, inScope, lockVars, clock, flusher, ghostVars>>

\* The sequences over S of length at most n.
SeqsUpTo(S, n) == UNION {[1..k -> S] : k \in 0..n}

(***************************************************************************)
(* One session whose requests are stored, completed, read and deleted.     *)
(***************************************************************************)
FlowSession == "S1"
RequestIds == {10, 16}
MessageTypes == {"MESSAGE", "STATUS"}
FlowRequests == {RequestState(FlowSession, id) : id \in RequestIds}
FlowResponses ==
  {GrrMessage(FlowSession, id, 1, type) : id \in RequestIds, type \in MessageTypes}

\* The (request, timestamp) and (response, timestamp) tuples of a caller that
\* stamps what it stores with the current time.
NewRequests(requests) ==
  [i \in DOMAIN requests |-> [request |-> requests[i], timestamp |-> Now(clock)]]

NewResponses(responses) ==
  [i \in DOMAIN responses |-> [response |-> responses[i], timestamp |-> Now(clock)]]

NextFlow ==
  \/ \E requests \in SeqsUpTo(FlowRequests, 2), responses \in SeqsUpTo(FlowResponses, 1),
        requests_to_delete \in SeqsUpTo(FlowRequests, 1) :
       StoreRequestsAndResponses(NewRequests(requests), NewResponses(responses),
                                 requests_to_delete)
  \/ \E w \in Workers : ReadCompletedRequests(w, FlowSession)
  \/ \E request \in FlowRequests : DeleteRequests(<<request>>)

SpecFlow == Init /\ [][NextFlow]_vars

(***************************************************************************)
(* Two sessions that are stored to and destroyed.                          *)
(***************************************************************************)
DestroySessions == {"S1", "S2"}
DestroyRequests == {RequestState(s, 10) : s \in DestroySessions}
DestroyResponses == {GrrMessage(s, 10, 1, type) : s \in DestroySessions, type \in MessageTypes}

NextDestroy ==
  \/ \E requests \in SeqsUpTo(DestroyRequests, 1), responses \in SeqsUpTo(DestroyResponses, 1) :
       StoreRequestsAndResponses(NewRequests(requests), NewResponses(responses), <<>>)
  \/ \E session_ids \in SeqsUpTo(DestroySessions, 2) \ {<<>>} :
       MultiDestroyFlowStates(session_ids)

SpecDestroy == Init /\ [][NextDestroy]_vars

(***************************************************************************)
(* Claims about the flow state.                                            *)
(***************************************************************************)
\* C11: after DeleteRequests([R]) ReadCompletedRequests of R's session yields
\* no pair for R.
C11_DeletedRequestNotCompleted ==
  [][ret'.op = "DeleteRequests" =>
       \A i \in DOMAIN ret'.requests :
         \A p \in Range(CompletedRequests(store', ret'.requests[i].session_id)) :
           p.request # ret'.requests[i]]_vars

\* The ids of the cells with the prefix on the session's state subject.
StateIds(st, session_id, prefix) ==
  {c.attr[2] : c \in DbPrefixCells(st, StateSubject(session_id), prefix, None, None)}

\* C12: ReadCompletedRequests yields one (request, status) pair for every
\* request id that has both a flow:request and a flow:status cell on the state
\* subject, the pair made of the two stored values, yields no other pair, and
\* yields the pairs in ascending order of the request ids.
C12_CompletedRequestsInOrder ==
  [][ret'.op = "ReadCompletedRequests" =>
       LET pairs   == ret'.val.pairs
           session == ret'.val.session_id
           subject == StateSubject(session)
           both    == StateIds(store, session, FLOW_REQUEST_PREFIX)
                        \cap StateIds(store, session, FLOW_STATUS_PREFIX)
       IN  /\ Len(pairs) = Cardinality(both)
           /\ \A id \in both :
                \E i \in DOMAIN pairs :
                  /\ pairs[i].request.id = id
                  /\ Cell(subject, <<FLOW_REQUEST_PREFIX, id>>, Now(clock),
                          pairs[i].request) \in store
                  /\ Cell(subject, <<FLOW_STATUS_PREFIX, id>>, Now(clock),
                          pairs[i].status) \in store
           /\ \A i, j \in DOMAIN pairs :
                i < j => pairs[i].request.id < pairs[j].request.id]_vars

\* Two completed requests are read while the store holds them.
C12_Witness ==
  /\ ret.op = "ReadCompletedRequests"
  /\ Len(ret.val.pairs) = 2
  /\ ret.val.pairs = CompletedRequests(store, FlowSession)

\* C13: after MultiDestroyFlowStates the state subject of every listed
\* session holds no cell, the response subject of every request that was
\* stored for them is deleted, and the requests returned are the requests
\* that were stored.
C13_DestroyedSessionsHoldNothing ==
  [][ret'.op = "MultiDestroyFlowStates" =>
       LET sessions == Range(ret'.session_ids)
           stored   == {c.val : c \in {d \in store :
                                         /\ d.subj \in {StateSubject(s) : s \in sessions}
                                         /\ d.attr[1] = FLOW_REQUEST_PREFIX}}
       IN  /\ \A s \in sessions : \A c \in store' : c.subj # StateSubject(s)
           /\ \A r \in stored :
                \A c \in store' : c.subj # GetFlowResponseSubject(r.session_id, r.id)
           /\ Range(ret'.val) = stored]_vars

\* The entry of a response as StoreRequestsAndResponses queues it.
WrittenBy(calls, subject, attribute, e) ==
  \E i \in DOMAIN calls :
    /\ calls[i].subject = subject
    /\ attribute \in DOMAIN calls[i].values
    /\ [val |-> e.response, ts |-> e.timestamp] \in Range(calls[i].values[attribute])

\* C14: StoreRequestsAndResponses makes one MultiSet with sync per affected
\* subject; every response is written under flow:response on the subject of
\* its request, and under flow:status on the state subject exactly when its
\* type is STATUS; the flow:request and flow:status cells of a request to
\* delete that remain are the ones this call has written.
C14_OneMultiSetPerSubject ==
  [][ret'.op = "StoreRequestsAndResponses" =>
       LET calls     == ret'.calls
           requests  == Range(ret'.new_requests)
           responses == Range(ret'.new_responses)
           deleted   == Range(ret'.requests_to_delete)
           affected  ==
             {StateSubject(e.request.session_id) : e \in requests}
               \cup {StateSubject(e.response.session_id) :
                       e \in {x \in responses : x.response.type = "STATUS"}}
               \cup {GetFlowResponseSubject(e.response.session_id, e.response.request_id) :
                       e \in responses}
               \cup {StateSubject(r.session_id) : r \in deleted}
       IN  /\ {calls[i].subject : i \in DOMAIN calls} = affected
           /\ Len(calls) = Cardinality(affected)
           /\ \A i \in DOMAIN calls : calls[i].sync
           /\ \A e \in responses :
                /\ WrittenBy(calls,
                             GetFlowResponseSubject(e.response.session_id,
                                                    e.response.request_id),
                             <<FLOW_RESPONSE_PREFIX,
                               <<e.response.request_id, e.response.response_id>>>>, e)
                /\ Cell(GetFlowResponseSubject(e.response.session_id,
                                               e.response.request_id),
                        <<FLOW_RESPONSE_PREFIX,
                          <<e.response.request_id, e.response.response_id>>>>,
                        e.timestamp, e.response) \in store'
                /\ WrittenBy(calls, StateSubject(e.response.session_id),
                             <<FLOW_STATUS_PREFIX, e.response.request_id>>, e)
                     <=> e.response.type = "STATUS"
                /\ Cell(StateSubject(e.response.session_id),
                        <<FLOW_STATUS_PREFIX, e.response.request_id>>,
                        e.timestamp, e.response) \in store'
                     <=> e.response.type = "STATUS"
           /\ \A r \in deleted :
                /\ Cell(StateSubject(r.session_id), <<FLOW_REQUEST_PREFIX, r.id>>,
                        Now(clock), r) \in store'
                     <=> \E e \in requests : e.request = r
                /\ (\E c \in store' : /\ c.subj = StateSubject(r.session_id)
                                      /\ c.attr = <<FLOW_STATUS_PREFIX, r.id>>)
                     <=> \E e \in responses : /\ e.response.type = "STATUS"
                                              /\ e.response.session_id = r.session_id
                                              /\ e.response.request_id = r.id]_vars

\* One call stores a request again that it also deletes, with a status for
\* it, over a state subject that held the request and its status before.
C14_Witness ==
  /\ ret.op = "StoreRequestsAndResponses"
  /\ Len(ret.calls) = 2
  /\ \E r \in Range(ret.requests_to_delete) :
       /\ \E e \in Range(ret.new_requests) : e.request = r
       /\ \E e \in Range(ret.new_responses) :
            e.response.type = "STATUS" /\ e.response.request_id = r.id
       /\ Cell(StateSubject(r.session_id), <<FLOW_REQUEST_PREFIX, r.id>>,
               Now(clock), r) \in store

(***************************************************************************)
(* Notifications: cells notify:<session_id> of a queue shard, the cell's   *)
(* timestamp the notification's.                                           *)
(***************************************************************************)
GrrNotification(session_id, timestamp) ==
  [session_id |-> session_id, timestamp |-> timestamp]

\* A stored value that GrrNotification.FromSerializedString rejects.
Malformed == [malformed |-> TRUE]

\* DataStore.CreateNotifications, called on the data store.
DataStoreCreateNotifications(queue_shard, notifications) ==
  /\ store' = DbCreateNotifications(store, Now(clock), queue_shard, notifications)
  /\ ret' = [op |-> "DataStore.CreateNotifications", w |-> NoWorker,
             queue_shard |-> queue_shard, notifications |-> notifications]
  /\ UNCHANGED <<dirty, pool, inScope, lockVars, clock, flusher, ghostVars>>

\* The payload of a stored notification is damaged.
Corrupt(c) ==
  /\ c.val # Malformed
  /\ store' = (store \ {c}) \cup {[c EXCEPT !.val = Malformed]}
  /\ ret' = [op |-> "Corrupt", w |-> NoWorker]
  /\ UNCHANGED <<dirty, pool, inScope, lockVars, clock, flusher, ghostVars>>

\* A GetNotifications that deletes every cell of the attribute up to the
\* timestamp of the one that fails to parse.
RECURSIVE GetNotificationsLoopWide(_, _, _, _)
GetNotificationsLoopWide(queue_shard, cells, i, acc) ==
  IF i > Len(cells) THEN acc
  ELSE LET predicate == cells[i].attr
           ts        == cells[i].ts
       IN  IF cells[i].val = Malformed
             THEN GetNotificationsLoopWide(queue_shard, cells, i + 1,
                    [acc EXCEPT
                       !.store = DbDeleteAttributes(@, queue_shard, {predicate}, None, ts),
                       !.deletes = Append(@, [attributes |-> {predicate}, start |-> ts,
                                              end |-> ts, sync |-> TRUE])])
             ELSE GetNotificationsLoopWide(queue_shard, cells, i + 1,
                    [acc EXCEPT
                       !.yielded = Append(@, [cells[i].val EXCEPT
                                                !.session_id = predicate[2],
                                                !.timestamp = ts])])

\* The loop of GetNotifications over the resolved cells, from cell i on, the
\* generator consumed to its end; acc holds the store, the DeleteAttributes
\* calls made and the notifications yielded.
RECURSIVE GetNotificationsLoop(_, _, _, _)
GetNotificationsLoop(queue_shard, cells, i, acc) ==
  IF i > Len(cells) THEN acc
  ELSE LET predicate == cells[i].attr
           ts        == cells[i].ts
       IN  IF cells[i].val = Malformed
             THEN GetNotificationsLoop(queue_shard, cells, i + 1,
                    [acc EXCEPT
                       !.store = DbDeleteAttributes(@, queue_shard, {predicate}, ts, ts),
                       !.deletes = Append(@, [attributes |-> {predicate}, start |-> ts,
                                              end |-> ts, sync |-> TRUE])])
             ELSE GetNotificationsLoop(queue_shard, cells, i + 1,
                    [acc EXCEPT
                       !.yielded = Append(@, [cells[i].val EXCEPT
                                                !.session_id = predicate[2],
                                                !.timestamp = ts])])

\* GetNotifications with a limit that the shard does not reach.
GetNotifications(w, queue_shard, end) ==
  \E r \in {GetNotificationsLoop(queue_shard,
                                 ResolvePrefix(store, queue_shard,
                                               NOTIFY_PREDICATE_PREFIX, 0, end),
                                 1,
                                 [store |-> store, deletes |-> <<>>, yielded |-> <<>>])} :
    /\ Idle(w)
    /\ store' = r.store
    /\ ret' = [op |-> "GetNotifications", w |-> w, queue_shard |-> queue_shard,
               end |-> end, deletes |-> r.deletes, val |-> r.yielded]
    /\ UNCHANGED <<dirty, pool, inScope, lockVars, clock, flusher, ghostVars>>

(***************************************************************************)
(* One queue shard that is notified, damaged and read.                     *)
(***************************************************************************)
NotifyShard == Subj("N")
NotifySessions == 1..2
NotifyTimes == {Now(1), Now(2)}
Notifications ==
  {GrrNotification(s, t) : s \in NotifySessions, t \in NotifyTimes}
NotificationBatches == SeqsUpTo(Notifications, 2)

NextNotify ==
  \/ \E notifications \in NotificationBatches :
       DataStoreCreateNotifications(NotifyShard, notifications)
  \/ \E c \in store : Corrupt(c)
  \/ \E w \in Workers, end \in NotifyTimes \cup {Now(0)} :
       GetNotifications(w, NotifyShard, end)

SpecNotify == Init /\ [][NextNotify]_vars

(***************************************************************************)
(* Claims about the notifications.                                         *)
(***************************************************************************)
\* C15: every notification of one CreateNotifications call is written as a
\* cell of its own, attribute notify:<session_id>, the cell's timestamp the
\* notification's.
C15_EveryNotificationWritten ==
  [][ret'.op = "DataStore.CreateNotifications" =>
       \A n \in Range(ret'.notifications) :
         Cell(ret'.queue_shard, <<NOTIFY_PREDICATE_PREFIX, n.session_id>>,
              n.timestamp, n) \in store']_vars

\* The notify cells of the shard with a timestamp in [0, end].
NotifyCells(st, queue_shard, end) ==
  {c \in st : /\ c.subj = queue_shard
              /\ c.attr[1] = NOTIFY_PREDICATE_PREFIX
              /\ c.ts >= 0 /\ c.ts <= end}

\* C16: GetNotifications deletes what its window holds at the attribute and
\* timestamp of a cell that fails to parse, by one DeleteAttributes per such
\* cell on the cell's attribute with start = end = the cell's timestamp and
\* sync, leaves every other cell of the store in place, and yields the cells
\* of the window that parse, each once, with session_id from the attribute
\* and timestamp from the cell.
C16_MalformedCellDeleted ==
  [][ret'.op = "GetNotifications" =>
       LET cells == NotifyCells(store, ret'.queue_shard, ret'.end)
           bad   == {c \in cells : c.val = Malformed}
           gone  == {c \in cells : \E b \in bad : b.attr = c.attr /\ b.ts = c.ts}
       IN  /\ store' = store \ gone
           /\ {[attributes |-> {c.attr}, start |-> c.ts, end |-> c.ts, sync |-> TRUE] :
                 c \in bad} = Range(ret'.deletes)
           /\ Len(ret'.deletes) = Cardinality(bad)
           /\ Range(ret'.val) =
                {GrrNotification(c.attr[2], c.ts) : c \in cells \ bad}
           /\ Len(ret'.val) = Cardinality(cells \ bad)]_vars

\* A read has deleted one malformed cell of a session, has left an older cell
\* of the same session in place and has yielded it.
C16_Witness ==
  /\ ret.op = "GetNotifications"
  /\ Len(ret.deletes) = 1
  /\ \E c \in store :
       /\ c.subj = ret.queue_shard
       /\ c.attr \in ret.deletes[1].attributes
       /\ c.ts < ret.deletes[1].start
       /\ GrrNotification(c.attr[2], c.ts) \in Range(ret.val)

(***************************************************************************)
(* The keyword index: a cell kw_index:<name> on the subject                *)
(* <index>/<keyword> per posting.                                          *)
(***************************************************************************)
MaxIndexClock == 2

_INDEX_PREFIX == "kw_index:"

\* _INDEX_COLUMN_FORMAT % name
IndexColumn(name) == <<_INDEX_PREFIX, name>>

_KeywordToURN(urn, keyword) == [base |-> urn, sub |-> keyword, leaf |-> <<>>]

\* An IndexAddKeywordsForName that leaves its loop after the first keyword.
IndexAddRequestsFirstOnly(p, index_urn, name, order, timestamp) ==
  IF order = <<>> THEN p
  ELSE PoolSet(p, _KeywordToURN(index_urn, Head(order)), IndexColumn(name), "",
               timestamp, TRUE)

\* The loop of IndexAddKeywordsForName over set(keywords), in the order the
\* set is iterated: one mutation_pool.Set per keyword.
RECURSIVE IndexAddRequests(_, _, _, _, _)
IndexAddRequests(p, index_urn, name, order, timestamp) ==
  IF order = <<>> THEN p
  ELSE IndexAddRequests(PoolSet(p, _KeywordToURN(index_urn, Head(order)),
                                IndexColumn(name), "", timestamp, TRUE),
                        index_urn, name, Tail(order), timestamp)

\* The loop of IndexRemoveKeywordsForName: one mutation_pool.DeleteAttributes
\* per keyword, start and end at their defaults.
RECURSIVE IndexRemoveRequests(_, _, _, _)
IndexRemoveRequests(p, index_urn, name, order) ==
  IF order = <<>> THEN p
  ELSE IndexRemoveRequests(PoolDeleteAttributes(p, _KeywordToURN(index_urn, Head(order)),
                                                {IndexColumn(name)}, None, None),
                           index_urn, name, Tail(order))

\* The body "with self.GetMutationPool() as mutation_pool:" of the two index
\* writers: p is what the loop has buffered, __exit__ flushes it.
IndexWrite(op, index_urn, name, keywords, p) ==
  LET db == ApplyCalls([store |-> store, dirty |-> dirty], Now(clock), FlushCalls(p))
  IN  /\ store' = db.store
      /\ dirty' = db.dirty
      /\ ret' = [op |-> op, w |-> NoWorker, index_urn |-> index_urn, name |-> name,
                 keywords |-> keywords]
      /\ UNCHANGED <<pool, inScope, lockVars, clock, flusher, ghostVars>>

IndexAddKeywordsForName(index_urn, name, keywords) ==
  \E order \in Orders(keywords) :
    IndexWrite("IndexAddKeywordsForName", index_urn, name, keywords,
               IndexAddRequests(EmptyPool, index_urn, name, order, Now(clock)))

IndexRemoveKeywordsForName(index_urn, name, keywords) ==
  \E order \in Orders(keywords) :
    IndexWrite("IndexRemoveKeywordsForName", index_urn, name, keywords,
               IndexRemoveRequests(EmptyPool, index_urn, name, order))

\* What MultiResolvePrefix is asked for by IndexReadPostingLists.
IndexResolve(st, index_urn, keywords, start_time, end_time) ==
  DbMultiResolvePrefix(st, {_KeywordToURN(index_urn, k) : k \in keywords},
                       _INDEX_PREFIX, start_time, end_time + 1)

\* result: a set per requested keyword, the names of the cells delivered for
\* the keyword's subject.
PostingLists(raw, index_urn, keywords) ==
  [kw \in keywords |->
     IF _KeywordToURN(index_urn, kw) \in DOMAIN raw
       THEN {c.attr[2] : c \in Range(raw[_KeywordToURN(index_urn, kw)])}
       ELSE {}]

RECURSIVE MaxOf(_, _)
MaxOf(S, m) ==
  IF S = {} THEN m ELSE LET x == CHOOSE y \in S : TRUE IN MaxOf(S \ {x}, Max(m, x))

\* last_seen_map after the loop: per pair (kw, name) seen, the maximum of the
\* entry it had, or -1, and the timestamps of the pair's cells.
LastSeenMap(last_seen_map, raw, index_urn, keywords) ==
  LET seen(kw, name) ==
        IF _KeywordToURN(index_urn, kw) \in DOMAIN raw
          THEN {c.ts : c \in {d \in Range(raw[_KeywordToURN(index_urn, kw)]) :
                                d.attr[2] = name}}
          ELSE {}
      pairs == {<<kw, name>> : kw \in keywords,
                               name \in UNION {{c.attr[2] : c \in Range(raw[x])} :
                                                 x \in DOMAIN raw}}
      found == {pr \in pairs : seen(pr[1], pr[2]) # {}}
  IN  [pr \in DOMAIN last_seen_map \cup found |->
         MaxOf(seen(pr[1], pr[2]),
               IF pr \in DOMAIN last_seen_map THEN last_seen_map[pr] ELSE -1)]

\* IndexReadPostingLists with a last_seen_map; without one the result is the
\* same and no map is kept.
IndexReadPostingLists(w, index_urn, keywords, start_time, end_time, last_seen_map) ==
  \E raw \in IndexResolve(store, index_urn, keywords, start_time, end_time) :
    ReadOnly(w, "IndexReadPostingLists",
             [index_urn |-> index_urn, keywords |-> keywords,
              start_time |-> start_time, end_time |-> end_time,
              result |-> PostingLists(raw, index_urn, keywords),
              last_seen_map |-> LastSeenMap(last_seen_map, raw, index_urn, keywords)])

(***************************************************************************)
(* One index, two names, two keywords that are added and one that never    *)
(* is.                                                                     *)
(***************************************************************************)
IndexUrn == "I"
IndexNames == {"alice", "bob"}
AddedKeywords == {"ssh", "linux"}
IndexKeywords == AddedKeywords \cup {"mac"}

NextIndex ==
  \/ \E name \in IndexNames, keywords \in SUBSET AddedKeywords :
       IndexAddKeywordsForName(IndexUrn, name, keywords)
  \/ \E name \in IndexNames, keywords \in SUBSET AddedKeywords :
       IndexRemoveKeywordsForName(IndexUrn, name, keywords)
  \/ \E keywords \in SUBSET IndexKeywords :
       \E start_time \in {0, Now(1)}, end_time \in {Now(clock), Now(1) - 1} :
         IndexReadPostingLists(Holder, IndexUrn, keywords, start_time, end_time, <<>>)
  \/ Advance(MaxIndexClock)

SpecIndex == Init /\ [][NextIndex]_vars

(***************************************************************************)
(* Claims about the keyword index.                                         *)
(***************************************************************************)
\* What IndexReadPostingLists(index_urn, keywords, 0, now) can return in
\* state st.
ReadsNow(st, now, index_urn, keywords) ==
  {PostingLists(raw, index_urn, keywords) :
     raw \in IndexResolve(st, index_urn, keywords, 0, now)}

\* C17: once IndexAddKeywordsForName(index, name, K) has returned,
\* IndexReadPostingLists(index, K, 0, now) maps every keyword of K to a set
\* that holds name; once IndexRemoveKeywordsForName(index, name, K) has
\* returned it maps every keyword of K to a set that does not hold name; and
\* the result of every read has a key per requested keyword, the empty set
\* for a keyword that has no posting.
C17_PostingListsFollowWrites ==
  [][ /\ ret'.op = "IndexAddKeywordsForName" =>
          (\A added \in ReadsNow(store', Now(clock'), ret'.index_urn, ret'.keywords) :
             /\ DOMAIN added = ret'.keywords
             /\ \A k \in ret'.keywords : ret'.name \in added[k])
      /\ ret'.op = "IndexRemoveKeywordsForName" =>
          (\A removed \in ReadsNow(store', Now(clock'), ret'.index_urn, ret'.keywords) :
             /\ DOMAIN removed = ret'.keywords
             /\ \A k \in ret'.keywords : ret'.name \notin removed[k])
      /\ ret'.op = "IndexReadPostingLists" =>
          (/\ DOMAIN ret'.val.result = ret'.val.keywords
           /\ \A k \in ret'.val.keywords :
                ((\A c \in store : c.subj # _KeywordToURN(ret'.val.index_urn, k))
                   => (ret'.val.result[k] = {})))]_vars

\* Both keywords have been added for a name while the other name is posted.
C17_Witness ==
  /\ ret.op = "IndexAddKeywordsForName"
  /\ ret.keywords = AddedKeywords
  /\ \A k \in AddedKeywords :
       \E c \in store : c.subj = _KeywordToURN(IndexUrn, k) /\ c.attr[2] # ret.name

\* A name has been removed from a keyword that keeps another posting.
C17_WitnessRemoved ==
  /\ ret.op = "IndexRemoveKeywordsForName"
  /\ \E k \in ret.keywords :
       \E c \in store : c.subj = _KeywordToURN(IndexUrn, k)

(***************************************************************************)
(* LockRetryWrapper as a function of its arguments.  free_at is the        *)
(* attempt at which DBSubjectLock(subject) succeeds, 0 when the subject    *)
(* stays locked.                                                           *)
(***************************************************************************)
MaxRetryTimeout == 3
MaxRetryBudget == 4
MaxRetryFreeAt == 3

\* What one call has done when it is left: the attempts made, the sleeps
\* taken, the increments of datastore_retries, the value of timeout and how
\* the call ended.
RetryOutcome(wait, attempts, retries, timeout, outcome) ==
  [attempts |-> attempts, sleeps |-> [i \in 1..retries |-> wait],
   datastore_retries |-> retries, timeout |-> timeout, outcome |-> outcome]

\* A loop that goes on while timeout <= retrywrap_max_timeout.
RECURSIVE RetryLoopInclusive(_, _, _, _, _, _, _)
RetryLoopInclusive(wait, max_timeout, blocking, free_at, timeout, attempts, retries) ==
  IF ~(timeout <= max_timeout)
    THEN RetryOutcome(wait, attempts, retries, timeout, "Retry number exceeded.")
  ELSE IF attempts + 1 = free_at
    THEN RetryOutcome(wait, attempts + 1, retries, timeout, "DBSubjectLock")
  ELSE IF ~blocking
    THEN RetryOutcome(wait, attempts + 1, retries, timeout, "DBSubjectLockError")
  ELSE RetryLoopInclusive(wait, max_timeout, blocking, free_at,
                          timeout + wait, attempts + 1, retries + 1)

\* A loop that sleeps and counts a failed attempt whatever blocking says.
RECURSIVE RetryLoopAlwaysBlocking(_, _, _, _, _, _, _)
RetryLoopAlwaysBlocking(wait, max_timeout, blocking, free_at, timeout, attempts, retries) ==
  IF ~(timeout < max_timeout)
    THEN RetryOutcome(wait, attempts, retries, timeout, "Retry number exceeded.")
  ELSE IF attempts + 1 = free_at
    THEN RetryOutcome(wait, attempts + 1, retries, timeout, "DBSubjectLock")
  ELSE RetryLoopAlwaysBlocking(wait, max_timeout, blocking, free_at,
                               timeout + wait, attempts + 1, retries + 1)

\* The while loop of LockRetryWrapper, wait = retrywrap_timeout and
\* max_timeout = retrywrap_max_timeout, from the state (timeout, attempts
\* made, increments made) on.
RECURSIVE RetryLoop(_, _, _, _, _, _, _)
RetryLoop(wait, max_timeout, blocking, free_at, timeout, attempts, retries) ==
  IF ~(timeout < max_timeout)
    THEN RetryOutcome(wait, attempts, retries, timeout, "Retry number exceeded.")
  ELSE IF attempts + 1 = free_at
    THEN RetryOutcome(wait, attempts + 1, retries, timeout, "DBSubjectLock")
  ELSE IF ~blocking
    THEN RetryOutcome(wait, attempts + 1, retries, timeout, "DBSubjectLockError")
  ELSE RetryLoop(wait, max_timeout, blocking, free_at,
                 timeout + wait, attempts + 1, retries + 1)

LockRetryWrapper(w, wait, max_timeout, blocking, free_at) ==
  /\ Idle(w)
  /\ ret' = [op |-> "LockRetryWrapper", w |-> w, retrywrap_timeout |-> wait,
             retrywrap_max_timeout |-> max_timeout, blocking |-> blocking,
             free_at |-> free_at,
             val |-> RetryLoop(wait, max_timeout, blocking, free_at, 0, 0, 0)]
  /\ UNCHANGED <<store, dirty, pool, inScope, lockVars, clock, flusher, ghostVars>>

NextRetry ==
  \E w \in Workers, wait \in 1..MaxRetryTimeout, max_timeout \in -1..MaxRetryBudget :
    \E blocking \in BOOLEAN, free_at \in 0..MaxRetryFreeAt :
      LockRetryWrapper(w, wait, max_timeout, blocking, free_at)

SpecRetry == Init /\ [][NextRetry]_vars

(***************************************************************************)
(* Claims about LockRetryWrapper.                                          *)
(***************************************************************************)
\* ceil(a / b) for a >= 0 and b > 0
CeilDiv(a, b) == (a + b - 1) \div b

\* C18: a blocking LockRetryWrapper with retrywrap_timeout > 0 and a budget
\* retrywrap_max_timeout >= 0, on a subject that stays locked, makes
\* ceil(retrywrap_max_timeout / retrywrap_timeout) attempts, sleeps
\* retrywrap_timeout after each and increments datastore_retries once for
\* each, and raises "Retry number exceeded." as soon as the sum of the sleeps
\* has reached retrywrap_max_timeout; when an attempt within these succeeds
\* it returns the lock of that attempt and makes no further attempt.
C18_BlockingRetryBounded ==
  [][(/\ ret'.op = "LockRetryWrapper"
      /\ ret'.blocking
      /\ ret'.retrywrap_max_timeout >= 0) =>
       LET n == CeilDiv(ret'.retrywrap_max_timeout, ret'.retrywrap_timeout)
           r == ret'.val
       IN  IF ret'.free_at = 0 \/ ret'.free_at > n
             THEN /\ r.outcome = "Retry number exceeded."
                  /\ r.attempts = n
                  /\ r.sleeps = [i \in 1..n |-> ret'.retrywrap_timeout]
                  /\ r.datastore_retries = n
                  /\ r.timeout = n * ret'.retrywrap_timeout
                  /\ r.timeout >= ret'.retrywrap_max_timeout
                  /\ n > 0 => r.timeout - ret'.retrywrap_timeout < ret'.retrywrap_max_timeout
             ELSE /\ r.outcome = "DBSubjectLock"
                  /\ r.attempts = ret'.free_at
                  /\ r.sleeps = [i \in 1..(ret'.free_at - 1) |-> ret'.retrywrap_timeout]
                  /\ r.datastore_retries = ret'.free_at - 1]_vars

\* A blocking call has given up on a locked subject after two attempts, the
\* budget not a multiple of the wait.
C18_Witness ==
  /\ ret.op = "LockRetryWrapper"
  /\ ret.blocking /\ ret.free_at = 0
  /\ ret.retrywrap_max_timeout = 3 /\ ret.retrywrap_timeout = 2
  /\ ret.val.attempts = 2
  /\ ret.val.outcome = "Retry number exceeded."

\* A blocking call has got the lock at its second attempt.
C18_WitnessLock ==
  /\ ret.op = "LockRetryWrapper"
  /\ ret.blocking /\ ret.free_at = 2
  /\ ret.val.outcome = "DBSubjectLock"

\* C19: a LockRetryWrapper with blocking = False makes exactly one attempt;
\* when the attempt fails, the DBSubjectLockError of the attempt is raised
\* with no sleep, no further attempt and no increment of datastore_retries.
C19_NonBlockingOneAttempt ==
  [][(ret'.op = "LockRetryWrapper" /\ ~ret'.blocking) =>
       /\ ret'.val.attempts = 1
       /\ ret'.val.sleeps = <<>>
       /\ ret'.val.datastore_retries = 0
       /\ ret'.val.outcome = IF ret'.free_at = 1 THEN "DBSubjectLock"
                             ELSE "DBSubjectLockError"]_vars

\* The same for the calls that have a budget, retrywrap_max_timeout > 0.
NonBlockingOneAttemptWithBudget ==
  [][(/\ ret'.op = "LockRetryWrapper"
      /\ ~ret'.blocking
      /\ ret'.retrywrap_max_timeout > 0) =>
       /\ ret'.val.attempts = 1
       /\ ret'.val.sleeps = <<>>
       /\ ret'.val.datastore_retries = 0
       /\ ret'.val.outcome = IF ret'.free_at = 1 THEN "DBSubjectLock"
                             ELSE "DBSubjectLockError"]_vars

(***************************************************************************)
(* Two callers that compete for the lock of one queue, with leases that    *)
(* end while the other caller still retries.  The retry budget outlasts    *)
(* the clock, so no caller gives up.                                       *)
(***************************************************************************)
MutexLeases == {1, 2}

NextMutex ==
  \/ \E w \in Workers, lease \in MutexLeases :
       QueueQueryAndOwn(w, TaskQueue, lease, 1, None, FALSE)
  \/ \E w \in Workers : LockRetry(w)
  \/ \E w \in Workers : LockDel(w)
  \/ Tick

SpecMutex == Init /\ [][NextMutex]_vars

\* C20: an expiry is installed for a caller only when no unexpired expiry is
\* stored, so that at every instant at most one holder has an expiry in the
\* future; an attempt made while another holder's expiry is in the future
\* fails (the caller goes into its retry) and leaves the stored expiry and
\* its holder as they are.
C20_OneUnexpiredHolder ==
  [][ /\ (lock' # lock /\ lock'.holder # NoWorker) =>
           (/\ lock.expires <= Now(clock)
            /\ lock'.expires > Now(clock))
      /\ (\E w \in Workers : retry'[w] > retry[w]) =>
           (/\ lock.holder # NoWorker
            /\ lock.expires > Now(clock)
            /\ lock' = lock)
      /\ \A w \in Workers :
           (lock.holder = w /\ lock.expires > Now(clock) /\ clock' = clock)
             => lock'.holder \in {w, NoWorker}]_vars

\* The contender's attempt has failed against the holder's unexpired lock.
C20_Witness ==
  /\ ret.op = "LockRetry"
  /\ ret.w = Contender
  /\ retry[Contender] > 0
  /\ lock.holder = Holder
  /\ lock.expires > Now(clock)

\* The contender holds the lock it took once the holder's lease had run out,
\* the holder's lock object not yet released.
C20_WitnessStolen ==
  /\ lock.holder = Contender
  /\ lock.expires > Now(clock)
  /\ garbage[Holder]

\* The caller can make an attempt of LockRetryWrapper now.
CanAttempt(w) == retry[w] < retrywrap_max_timeout /\ clock >= wake[w]

\* C21: a stored expiry that has passed, released or not, and a released lock
\* let every caller that attempts the acquisition succeed: the attempt is
\* possible, no attempt fails, and the acquisition installs the expiry
\* now + lease_time for the acquirer.
C21_ExpiredLockIsFree ==
  [][ /\ lock.expires <= Now(clock) =>
           (/\ \A w \in Workers :
                 CanAttempt(w) =>
                   \A lease \in MutexLeases :
                     ENABLED QueueQueryAndOwn(w, TaskQueue, lease, 1, None, FALSE)
            /\ \A w \in Workers : retry'[w] <= retry[w])
      /\ (lock' # lock /\ lock'.holder # NoWorker) =>
           (/\ lock.expires <= Now(clock)
            /\ lock'.expires \in {Now(clock) + lease * MicrosPerSec : lease \in MutexLeases}
            /\ garbage'[lock'.holder])]_vars

\* The contender has just taken the lock that the holder let expire and has
\* not released.
C21_Witness ==
  /\ ret.op = "QueueQueryAndOwn"
  /\ ret.w = Contender
  /\ lock.holder = Contender
  /\ lock.expires = Now(clock) + MicrosPerSec
  /\ garbage[Holder]
  /\ clock > 0

\* The lock has been released while its expiry was in the future.
C21_WitnessReleased ==
  /\ lock.holder = NoWorker
  /\ clock > 0
  /\ \E w \in Workers : ~garbage[w] /\ ret.op = "QueueQueryAndOwn" /\ ret.w = w

(***************************************************************************)
(* The subject lock under "with": __enter__, __exit__ and, once the object *)
(* is unreferenced, __del__.                                               *)
(***************************************************************************)
\* Release (modelled from its contract): the expiry this object installed is
\* removed; the call is counted on the object.
Release(w) ==
  /\ lock' = IF lock.holder = w THEN [expires |-> 0, holder |-> NoWorker] ELSE lock
  /\ lockObject' = [lockObject EXCEPT ![w].releases = @ + 1]

\* with DBSubjectLock(...) as lock: the acquisition succeeds, __enter__
\* returns the object.  The caller's previous lock object is gone.
LockEnter(w, lease_time) ==
  /\ CanAttempt(w)
  /\ ~lockObject[w].entered
  /\ ~garbage[w]
  /\ LockFree(lock, Now(clock))
  /\ lock' = [expires |-> Now(clock) + lease_time * MicrosPerSec, holder |-> w]
  /\ lockObject' = [lockObject EXCEPT ![w] = [entered |-> TRUE, releases |-> 0]]
  /\ ret' = [op |-> "DBSubjectLock.__enter__", w |-> w]
  /\ UNCHANGED <<store, dirty, pool, inScope, garbage, retry, wake, clock, flusher, ghostVars>>

\* An __exit__ that releases only when the block is left without an error.
LockExitBodyNoReleaseOnError(w, exc) ==
  /\ lockObject[w].entered
  /\ IF exc
       THEN /\ lock' = lock
            /\ lockObject' = [lockObject EXCEPT ![w].entered = FALSE]
       ELSE /\ lock' = IF lock.holder = w THEN [expires |-> 0, holder |-> NoWorker] ELSE lock
            /\ lockObject' = [lockObject EXCEPT ![w] = [entered |-> FALSE,
                                                        releases |-> @.releases + 1]]

\* __exit__: self.Release(), with or without an exception in the block.
LockExitBody(w, exc) ==
  /\ lockObject[w].entered
  /\ lock' = IF lock.holder = w THEN [expires |-> 0, holder |-> NoWorker] ELSE lock
  /\ lockObject' = [lockObject EXCEPT ![w] = [entered |-> FALSE,
                                              releases |-> @.releases + 1]]

\* The block is left, exc says whether by an exception; the object is
\* unreferenced from here on.
LockExit(w, exc) ==
  /\ LockExitBody(w, exc)
  /\ garbage' = [garbage EXCEPT ![w] = TRUE]
  /\ ret' = [op |-> "DBSubjectLock.__exit__", w |-> w, exc |-> exc]
  /\ UNCHANGED <<store, dirty, pool, inScope, retry, wake, clock, flusher, ghostVars>>

\* __del__ of the object that the block has left: self.Release() inside try.
LockScopeDel(w) ==
  /\ garbage[w]
  /\ ~lockObject[w].entered
  /\ Release(w)
  /\ garbage' = [garbage EXCEPT ![w] = FALSE]
  /\ ret' = [op |-> "DBSubjectLock.__del__", w |-> w]
  /\ UNCHANGED <<store, dirty, pool, inScope, retry, wake, clock, flusher, ghostVars>>

ScopeLeases == {1, 2}

NextScope ==
  \/ \E w \in Workers, lease_time \in ScopeLeases : LockEnter(w, lease_time)
  \/ \E w \in Workers, exc \in BOOLEAN : LockExit(w, exc)
  \/ \E w \in Workers : LockScopeDel(w)
  \/ Tick

SpecScope == Init /\ [][NextScope]_vars

\* C22: over the lifetime of a lock object used under "with", the scope exit
\* and the destruction counted, Release is called on it exactly once: never
\* more than once, and once when the block has been left.
C22_ReleaseExactlyOnce ==
  \A w \in Workers :
    /\ lockObject[w].releases <= 1
    /\ (ret.op = "DBSubjectLock.__exit__" /\ ret.w = w) => lockObject[w].releases = 1

\* Every block that is left, by an exception or not, has called Release once
\* when __exit__ returns.
ReleasedAtExit ==
  [][\A w \in Workers :
       (lockObject[w].entered /\ ~lockObject'[w].entered)
         => lockObject'[w].releases = 1]_vars

(***************************************************************************)
(* CollectionScanItems: the items below <collection_id>/Results that come  *)
(* after a position.                                                       *)
(***************************************************************************)
\* after_urn of the scan, as its last path segment: there is none when
\* after_timestamp is falsy (None or 0); a falsy after_suffix (None or 0)
\* stands for COLLECTION_MAX_SUFFIX.
ScanAfter(collection_id, after_timestamp, after_suffix) ==
  IF after_timestamp = None \/ after_timestamp = 0 THEN <<>>
  ELSE CollectionMakeURN(collection_id, after_timestamp,
                         IF after_suffix = None \/ after_suffix = 0
                           THEN COLLECTION_MAX_SUFFIX ELSE after_suffix,
                         "Results").leaf

\* The tuples (item, timestamp, suffix) yielded for the scanned rows: the
\* timestamp is the cell's, the suffix is parsed from the subject.
ScanItems(rows) ==
  [i \in DOMAIN rows |->
     [item      |-> rows[i].values[COLLECTION_ATTRIBUTE].val,
      timestamp |-> rows[i].values[COLLECTION_ATTRIBUTE].ts,
      suffix    |-> SuffixOf(rows[i].subject)]]

\* CollectionScanItems, the generator consumed to its end; limit = None: no
\* max_records.
CollectionScanItems(w, collection_id, after_timestamp, after_suffix, limit) ==
  ReadOnly(w, "CollectionScanItems",
           [collection_id |-> collection_id, after_timestamp |-> after_timestamp,
            after_suffix |-> after_suffix, limit |-> limit,
            items |-> ScanItems(DbScanAttributes(store, collection_id, "Results",
                                                 {COLLECTION_ATTRIBUTE},
                                                 ScanAfter(collection_id, after_timestamp,
                                                           after_suffix),
                                                 IF limit = None THEN Cardinality(store)
                                                 ELSE limit))])

\* with data_store.DB.GetMutationPool() as pool: pool.CollectionAddItem(...)
\* by a producer whose scope is left without an error; suffix is the suffix
\* drawn.
CollectionAddInScope(collection_id, item, timestamp, suffix) ==
  /\ InScope(PoolCollectionAddItem(EmptyPool, collection_id, item, timestamp, suffix, TRUE))
  /\ UNCHANGED <<pool, inScope, lockVars, clock, flusher, ghostVars>>

(***************************************************************************)
(* One collection with items at two timestamps and at the smallest and the *)
(* largest suffix, scanned from every position.                            *)
(***************************************************************************)
ScanCollection == "C"
ScanTimes == {Now(1), Now(2)}
ScanSuffixes == {1, 2, COLLECTION_MAX_SUFFIX}
ScanItemValues == {5}

NextScan ==
  \/ \E item \in ScanItemValues, timestamp \in ScanTimes, suffix \in ScanSuffixes :
       CollectionAddInScope(ScanCollection, item, timestamp, suffix)
  \/ \E after_timestamp \in ScanTimes \cup {None, 0} :
       \E after_suffix \in ScanSuffixes \cup {None, 0}, limit \in {None, 1} :
         CollectionScanItems(Holder, ScanCollection, after_timestamp, after_suffix, limit)

SpecScan == Init /\ [][NextScan]_vars

\* The positions (timestamp, suffix) of the items stored below
\* <collection_id>/Results.
StoredItems(st, collection_id) ==
  {<<c.ts, SuffixOf(c.subj)>> :
     c \in {d \in st : /\ d.subj.base = collection_id /\ d.subj.sub = "Results"
                       /\ d.attr = COLLECTION_ATTRIBUTE}}

PositionLess(a, b) == a[1] < b[1] \/ (a[1] = b[1] /\ a[2] < b[2])

\* What the scan is to yield: every item without after_timestamp; the items
\* with a later timestamp without after_suffix; the items strictly after
\* (after_timestamp, after_suffix) otherwise.
ItemsAfter(st, collection_id, after_timestamp, after_suffix) ==
  {x \in StoredItems(st, collection_id) :
     \/ after_timestamp = None
     \/ (after_suffix = None /\ x[1] > after_timestamp)
     \/ (after_suffix # None /\ PositionLess(<<after_timestamp, after_suffix>>, x))}

\* The scan has yielded the items of S, each once, in ascending order.
YieldsAscending(items, S) ==
  /\ {<<items[i].timestamp, items[i].suffix>> : i \in DOMAIN items} = S
  /\ Len(items) = Cardinality(S)
  /\ \A i, j \in DOMAIN items :
       i < j => PositionLess(<<items[i].timestamp, items[i].suffix>>,
                             <<items[j].timestamp, items[j].suffix>>)

\* C23: for after_timestamp >= 0 and after_suffix in [0, 0xFFFFFF] a scan
\* without limit yields, in ascending (timestamp, suffix) order, exactly the
\* items strictly after (after_timestamp, after_suffix); without after_suffix
\* the items with a later timestamp; without after_timestamp every item.
C23_ScanYieldsItemsAfter ==
  [][(ret'.op = "CollectionScanItems" /\ ret'.val.limit = None) =>
       YieldsAscending(ret'.val.items,
                       ItemsAfter(store, ret'.val.collection_id,
                                  ret'.val.after_timestamp, ret'.val.after_suffix))]_vars

\* The same for the positions with a suffix that is not 0.
ScanYieldsItemsAfterPositive ==
  [][(/\ ret'.op = "CollectionScanItems"
      /\ ret'.val.limit = None
      /\ ret'.val.after_suffix # 0) =>
       YieldsAscending(ret'.val.items,
                       ItemsAfter(store, ret'.val.collection_id,
                                  ret'.val.after_timestamp, ret'.val.after_suffix))]_vars

(***************************************************************************)
(* The flusher thread of a store instance.                                 *)
(***************************************************************************)
\* DataStore.__init__: a new instance takes the place of the one in use; it
\* starts a flusher thread if the class attribute says so.
DataStoreInit ==
  /\ flusher' = [flusher EXCEPT !.flusher_thread = flusher.enable_flusher_thread]
  /\ ret' = [op |-> "DataStore.__init__", w |-> NoWorker]
  /\ UNCHANGED <<store, dirty, pool, inScope, lockVars, clock, ghostVars>>

\* The classmethod SetupTestDB.
SetupTestDB ==
  /\ flusher' = [flusher EXCEPT !.enable_flusher_thread = FALSE]
  /\ ret' = [op |-> "SetupTestDB", w |-> NoWorker]
  /\ UNCHANGED <<store, dirty, pool, inScope, lockVars, clock, ghostVars>>

\* A thread target that leaves the pending writes as they are.
FlusherTargetIdle(d) == d

\* The target of the flusher thread, self.Flush (modelled from the backend's
\* contract): the writes issued with sync=False are committed.
FlusherTarget(d) == FALSE

\* One round of the flusher thread (modelled from the contract of
\* InterruptableThread: call the target, sleep, again).
FlusherLoop ==
  /\ flusher.flusher_thread
  /\ dirty' = FlusherTarget(dirty)
  /\ ret' = [op |-> "flusher_thread", w |-> NoWorker]
  /\ UNCHANGED <<store, pool, inScope, lockVars, clock, flusher, ghostVars>>

\* DataStore.Set with the timestamp at its default.
DataStoreSet(subject, attribute, value, replace, sync) ==
  /\ store' = DbMultiSet(store, Now(clock), subject,
                         [a \in {attribute} |-> <<[val |-> value, ts |-> None]>>],
                         None, replace, {})
  /\ dirty' = (dirty \/ ~sync)
  /\ ret' = [op |-> "DataStore.Set", w |-> NoWorker, sync |-> sync]
  /\ UNCHANGED <<pool, inScope, lockVars, clock, flusher, ghostVars>>

FlusherSubjects == {Subj("A"), Subj("B")}
FlusherValues == 1..2

NextFlusher ==
  \/ DataStoreInit
  \/ SetupTestDB
  \/ FlusherLoop
  \/ \E subject \in FlusherSubjects, value \in FlusherValues, sync \in BOOLEAN :
       DataStoreSet(subject, PoolAttr, value, TRUE, sync)
  \/ Tick

\* The flusher thread is scheduled again and again while it exists.
SpecFlusher == Init /\ [][NextFlusher]_vars /\ WF_vars(FlusherLoop)

\* C24: while the instance in use has its flusher thread, writes issued with
\* sync=False are committed in the end though no caller calls Flush; and an
\* instance created once SetupTestDB has run has no flusher thread, so that
\* no round of the flusher runs for it.
C24_FlusherCommits ==
  /\ [](dirty /\ flusher.flusher_thread => <>(~dirty \/ ~flusher.flusher_thread))
  /\ [][ /\ (ret'.op = "DataStore.__init__" /\ ~flusher.enable_flusher_thread)
              => ~flusher'.flusher_thread
         /\ (ret'.op = "DataStore.__init__" /\ flusher.enable_flusher_thread)
              => flusher'.flusher_thread
         /\ (~flusher.flusher_thread /\ dirty /\ flusher' = flusher) => dirty']_vars

\* The flusher has committed a sync=False write of an instance that was
\* created with the flusher enabled, after SetupTestDB has run.
C24_Witness ==
  /\ ret.op = "flusher_thread"
  /\ ~dirty
  /\ store # {}
  /\ ~flusher.enable_flusher_thread

\* An instance created after SetupTestDB has a write that waits.
C24_WitnessNoFlusher ==
  /\ ~flusher.flusher_thread
  /\ dirty

(***************************************************************************)
(* A caller that claims records and releases them through the pool it      *)
(* claimed with, the pool flushed at any time.                             *)
(***************************************************************************)
NextRelease ==
  \/ \E suffix \in RecSuffixes :
       /\ suffix \notin StoredSuffixes(store)
       /\ AddInScope(RecQueue, ItemOf(suffix), Now(suffix - 1), suffix)
  \/ \E w \in Workers, limit \in 1..2, timeout \in Timeouts :
       /\ Flushed(w)
       /\ QueueClaimRecords(w, RecQueue, limit, timeout, None, {}, 0)
  \/ \E w \in Workers :
       /\ ret.op = "QueueClaimRecords"
       /\ ret.w = w
       /\ ret.val # <<>>
       /\ QueueReleaseRecords(w, ret.val)
  \/ \E w \in Workers : Flush(w, 0)
  \/ Advance(MaxRecordsClock)

SpecRelease == Init /\ [][NextRelease]_vars

\* The pool holds the lease of a claim and the release of the same record.
ClaimedAndReleased(p, subject) ==
  /\ \E i \in DOMAIN p.set_requests :
       /\ p.set_requests[i].subject = subject
       /\ QUEUE_LOCK_ATTRIBUTE \in DOMAIN p.set_requests[i].values
  /\ \E i \in DOMAIN p.delete_attributes_requests :
       /\ p.delete_attributes_requests[i].subject = subject
       /\ QUEUE_LOCK_ATTRIBUTE \in p.delete_attributes_requests[i].attributes

\* C25: records claimed and then released through one pool, the pool flushed
\* after both calls, carry no aff4:lease cell after the Flush, and a new
\* QueueClaimRecords returns them.
C25_ReleaseAfterClaimFrees ==
  [][\A w \in Workers :
       (ret'.op = "Flush" /\ ret'.w = w /\ ~ret'.exc) =>
         \A s \in RecordSubjects(store, COLLECTION_ATTRIBUTE) :
           ClaimedAndReleased(pool[w], s) =>
             /\ s \notin RecordSubjects(store', QUEUE_LOCK_ATTRIBUTE)
             /\ \E r \in Range(ClaimRecords(store', EmptyPool, RecQueue, 2, 1, None, {}, 0,
                                            Now(clock)).results) :
                  RecordURN(r) = s]_vars

\* C26: whatever the interleaving of the scans and flushes of two workers
\* with pools of their own, QueueClaimRecords returns no record to a worker
\* while the lease of the claim that returned it to the other worker has not
\* run out.
C26_NoRecordToBothWorkers ==
  [][RecordsClaimStep =>
       \A x \in SuffixesOf(ret'.val) :
         ~(/\ recBy[x] \notin {NoWorker, ret'.w}
           /\ Now(clock) < recLease[x])]_vars


(***************************************************************************)
(* Reads of a queue that holds leased tasks: one worker leases with        *)
(* QueueQueryAndOwn and flushes, the other takes snapshots.                 *)
(***************************************************************************)
NextLeasedRead ==
  \/ /\ AllFlushed
     /\ ScheduleInScope(<<Task(TaskQueue, 1, MaxTTL, 0)>>, Now(clock))
  \/ \E lease \in MutexLeases :
       /\ AllFlushed
       /\ QueueQueryAndOwn(Holder, TaskQueue, lease, 1, None, FALSE)
  \/ LockDel(Holder)
  \/ Flush(Holder, 0)
  \/ \E limit \in 1..2 : QueueQueryTasks(Contender, TaskQueue, limit)
  \/ QueueMultiQuery(Contender, {TaskQueue})
  \/ Tick

SpecLeasedRead == Init /\ [][NextLeasedRead]_vars

\* The tasks a task read has returned.
TasksRead ==
  IF ret.op = "QueueQueryAndOwn" THEN {ret.val[i] : i \in DOMAIN ret.val}
  ELSE IF ret.op = "QueueQueryTasks"
    THEN {ret.val.tasks[i] : i \in DOMAIN ret.val.tasks}
  ELSE IF ret.op = "QueueMultiQuery"
    THEN UNION {{ret.val[q][i] : i \in DOMAIN ret.val[q]} : q \in DOMAIN ret.val}
  ELSE {}

\* C27: no task read (QueueQueryAndOwn without an upper bound, QueueQueryTasks,
\* QueueMultiQuery) returns a task whose cell timestamp lies in the future, so
\* none returns a task that is under a lease.
C27_NoFutureTaskRead ==
  [][\A task \in TasksRead' : task.eta <= Now(clock)]_ret

\* The part of C27 that concerns QueueQueryAndOwn alone.
QueryAndOwnReadsNoFuture ==
  [][ret'.op = "QueueQueryAndOwn" =>
       \A task \in TasksRead' : task.eta <= Now(clock)]_ret


(***************************************************************************)
(* QueueQueryAndOwn with every limit, on a queue whose tasks have one or   *)
(* two transmissions left.                                                 *)
(***************************************************************************)
ClaimLimits == 0..2
ClaimTTLs == {1, 2}

Queued(id) == \E c \in store : c.subj = Subj(TaskQueue) /\ c.attr[2] = id

NextLimit ==
  \/ \E id \in TaskIds, ttl \in ClaimTTLs :
       /\ AllFlushed
       /\ ~Queued(id)
       /\ ScheduleInScope(<<Task(TaskQueue, id, ttl, 0)>>, Now(clock))
  \/ \E limit \in ClaimLimits :
       /\ AllFlushed
       /\ QueueQueryAndOwn(Holder, TaskQueue, 1, limit, None, FALSE)
  \/ LockDel(Holder)
  \/ Flush(Holder, 0)
  \/ Tick

SpecLimit == Init /\ [][NextLimit]_vars

\* The cells a QueueQueryAndOwn of this state would find, in the order read.
LimitCells == QueryAndOwnCells(store, Subj(TaskQueue), None, Now(clock))

\* The cell's task has a transmission left after this claim.
Claimable(c) == c.val.task_ttl - 1 > 0

ClaimableIn(cells, n) == Cardinality({i \in 1..n : Claimable(cells[i])})

\* The number of cells read until `limit` tasks are claimed.
ReadUntil(cells, limit) ==
  IF \E n \in 0..Len(cells) : ClaimableIn(cells, n) >= limit
    THEN CHOOSE n \in 0..Len(cells) :
           /\ ClaimableIn(cells, n) >= limit
           /\ \A m \in 0..(n - 1) : ClaimableIn(cells, m) < limit
    ELSE Len(cells)

\* What a QueueQueryAndOwn step with this limit must have done.
WithinLimit(limit) ==
  LET cells == LimitCells
      n     == ReadUntil(cells, limit)
      got   == ret'.val
      reqs  == pool'[Holder].set_requests
      exhausted == {cells[i].attr : i \in {j \in 1..n : ~Claimable(cells[j])}}
      claimed   == {cells[i].attr : i \in {j \in 1..n : Claimable(cells[j])}}
  IN  /\ Len(got) <= limit
      /\ \A i \in DOMAIN got : got[i].task_ttl > 0
      /\ {<<QUEUE_TASK_PREDICATE_PREFIX, got[i].task_id>> : i \in DOMAIN got} = claimed
      /\ IF exhausted = {} /\ claimed = {} THEN reqs = <<>>
         ELSE /\ Len(reqs) = 1
              /\ reqs[1].to_delete = exhausted
              /\ DOMAIN reqs[1].values = claimed

\* C28: for every limit >= 0 QueueQueryAndOwn returns at most `limit` tasks and
\* reads no cell beyond the one that completes the limit; a task whose TTL the
\* call exhausts is deleted, is not counted and is not returned.
C28_AtMostLimitTasks ==
  [][\A limit \in ClaimLimits :
       QueueQueryAndOwn(Holder, TaskQueue, 1, limit, None, FALSE) => WithinLimit(limit)]_vars

\* C28 for the limits of at least one.
AtMostLimitTasksPositive ==
  [][\A limit \in ClaimLimits \ {0} :
       QueueQueryAndOwn(Holder, TaskQueue, 1, limit, None, FALSE) => WithinLimit(limit)]_vars

\* A claim with limit 2 that deleted one exhausted task and returned another.
LimitSkipsExhausted ==
  /\ ret.op = "QueueQueryAndOwn"
  /\ Len(ret.val) = 1
  /\ Len(pool[Holder].set_requests) = 1
  /\ pool[Holder].set_requests[1].to_delete # {}


(***************************************************************************)
(* The statistics counters of QueueQueryAndOwn: tasks of every TTL from    *)
(* one to max_ttl, claimed one or two at a time.                           *)
(***************************************************************************)
CountLimits == 1..2

NextCount ==
  \/ \E id \in TaskIds, ttl \in 1..max_ttl :
       /\ AllFlushed
       /\ ~Queued(id)
       /\ ScheduleInScope(<<Task(TaskQueue, id, ttl, 0)>>, Now(clock))
  \/ \E limit \in CountLimits :
       /\ AllFlushed
       /\ QueueQueryAndOwn(Holder, TaskQueue, 1, limit, None, FALSE)
  \/ LockDel(Holder)
  \/ Flush(Holder, 0)
  \/ Tick

SpecCount == Init /\ [][NextCount]_vars

\* The cells among the first n whose task the call claims.
ClaimedCells(cells, n) == {i \in 1..n : Claimable(cells[i])}

\* What a QueueQueryAndOwn step with this limit must have counted when a
\* claimed task counts as a retransmission iff its TTL before the decrement
\* is not `first`.
Counted(limit, first) ==
  LET cells == LimitCells
      n     == ReadUntil(cells, limit)
  IN  /\ ret'.stats.grr_task_retransmission_count =
           Cardinality({i \in ClaimedCells(cells, n) : cells[i].val.task_ttl # first})
      /\ ret'.stats.grr_task_ttl_expired_count =
           Cardinality((1..n) \ ClaimedCells(cells, n))

\* C29 (as stated): a claimed task whose TTL stays above zero increments
\* grr_task_retransmission_count iff its TTL before the decrement differs from
\* max_ttl - 1; a task whose TTL reaches zero increments
\* grr_task_ttl_expired_count and not the retransmission counter.
C29_CountsPreDecrement ==
  [][\A limit \in CountLimits :
       QueueQueryAndOwn(Holder, TaskQueue, 1, limit, None, FALSE)
         => Counted(limit, max_ttl - 1)]_vars

\* C29 (amended): the retransmission counter is incremented iff the TTL after
\* the decrement differs from max_ttl - 1, that is iff the TTL before the
\* decrement differs from max_ttl; the rest as stated.
C29_CountsPostDecrement ==
  [][\A limit \in CountLimits :
       QueueQueryAndOwn(Holder, TaskQueue, 1, limit, None, FALSE)
         => Counted(limit, max_ttl)]_vars

\* A call that claimed a task for the second time and one for the first time:
\* one retransmission counted for two tasks returned.
C29_Witness ==
  /\ ret.op = "QueueQueryAndOwn"
  /\ Len(ret.val) = 2
  /\ \E i \in 1..2 : ret.val[i].task_ttl = max_ttl - 1
  /\ \E i \in 1..2 : ret.val[i].task_ttl = max_ttl - 2
  /\ ret.stats.grr_task_retransmission_count = 1

\* A call that exhausted a task and counted no retransmission for it.
C29_WitnessExpired ==
  /\ ret.op = "QueueQueryAndOwn"
  /\ ret.stats.grr_task_ttl_expired_count = 1
  /\ ret.stats.grr_task_retransmission_count = 0
  /\ ret.val = <<>>


(***************************************************************************)
(* QueueClaimRecords with a record_filter: one worker, a queue of up to    *)
(* four records added in the order of their suffixes, every limit from 0   *)
(* to 2 and max_filtered None, 0, 1, 2.  Time stands still, so a flushed   *)
(* lease hides its record.                                                 *)
(***************************************************************************)
FilterSuffixes == 1..4
FilterItems == {"a", "b"}
FilterLimits == 0..2
MaxFiltereds == {None, 0, 1, 2}
Filters == {{}, {"a"}}
FilterTimeout == CHOOSE t \in Timeouts : TRUE

\* with data_store.DB.GetMutationPool() as pool: pool.QueueAddItem(...); the
\* lease bookkeeping of the two-worker specifications is not followed here.
QueueAddItemInScope(queue_id, item, timestamp, suffix) ==
  /\ InScope(PoolQueueAddItem(EmptyPool, queue_id, item, timestamp, suffix))
  /\ UNCHANGED <<pool, inScope, lockVars, clock, flusher, ghostVars>>

NextFilter ==
  \/ \E suffix \in FilterSuffixes, item \in FilterItems :
       /\ StoredSuffixes(store) = 1..(suffix - 1)
       /\ QueueAddItemInScope(RecQueue, item, Now(suffix - 1), suffix)
  \/ \E limit \in FilterLimits, record_filter \in Filters, max_filtered \in MaxFiltereds :
       /\ Flushed(Holder)
       /\ QueueClaimRecords(Holder, RecQueue, limit, FilterTimeout, None, record_filter,
                            max_filtered)
  \/ Flush(Holder, 0)

SpecFilter == Init /\ [][NextFilter]_vars

\* The scanned rows that hold an item and no lease in force, in scan order.
RECURSIVE EligibleRows(_, _)
EligibleRows(rows, now) ==
  IF rows = <<>> THEN <<>>
  ELSE LET r == Head(rows)
       IN  (IF COLLECTION_ATTRIBUTE \in DOMAIN r.values /\ ~LeaseHeld(r.values, now)
              THEN <<r>> ELSE <<>>) \o EligibleRows(Tail(rows), now)

RejectedRow(r, record_filter) == r.values[COLLECTION_ATTRIBUTE].val \in record_filter

AcceptedIn(e, k, record_filter) == {j \in 1..k : ~RejectedRow(e[j], record_filter)}

\* After k eligible rows the scan is over: limit records are accepted, or the
\* last max_filtered rows were all rejected.
ScanOver(e, k, limit, record_filter, max_filtered) ==
  \/ Cardinality(AcceptedIn(e, k, record_filter)) >= limit
  \/ /\ max_filtered \notin {0, None}
     /\ k >= max_filtered
     /\ \A j \in (k - max_filtered + 1)..k : RejectedRow(e[j], record_filter)

\* The number of eligible rows the scan goes through.
RowsScanned(e, limit, record_filter, max_filtered) ==
  LET stop == {k \in 0..Len(e) : ScanOver(e, k, limit, record_filter, max_filtered)}
  IN  IF stop = {} THEN Len(e) ELSE CHOOSE k \in stop : \A m \in stop : k <= m

\* What a QueueClaimRecords step with these arguments must have done.
FilteredClaim(limit, record_filter, max_filtered) ==
  \E e \in {EligibleRows(ClaimRows(store, RecQueue, limit, None), Now(clock))} :
    \E n \in {RowsScanned(e, limit, record_filter, max_filtered)} :
      LET expiration == Now(clock) + FilterTimeout * MicrosPerSec
          got  == ret'.val
          reqs == pool'[Holder].set_requests
      IN  /\ Len(got) <= limit
          /\ {RecordURN(got[i]) : i \in DOMAIN got}
               = {e[j].subject : j \in AcceptedIn(e, n, record_filter)}
          /\ \A i \in DOMAIN got : got[i].value \notin record_filter
          /\ Len(reqs) = Len(got)
          /\ \A i \in DOMAIN got :
               /\ reqs[i].subject = RecordURN(got[i])
               /\ DOMAIN reqs[i].values = {QUEUE_LOCK_ATTRIBUTE}
               /\ reqs[i].values[QUEUE_LOCK_ATTRIBUTE][1].val = expiration
          /\ pool'[Holder].delete_attributes_requests = <<>>

\* C30: filtered_count counts the consecutive records record_filter rejects
\* (an accepted record resets it); the scan stops when it reaches max_filtered
\* and never for max_filtered 0 or None; a rejected record is not returned and
\* gets no lease; at most limit records are returned, each with a buffered
\* lease write of the call's expiration.
C30_FilteredClaim ==
  [][\A limit \in FilterLimits, record_filter \in Filters, max_filtered \in MaxFiltereds :
       (/\ ret'.op = "QueueClaimRecords"
        /\ QueueClaimRecords(Holder, RecQueue, limit, FilterTimeout, None, record_filter,
                             max_filtered))
         => FilteredClaim(limit, record_filter, max_filtered)]_vars

\* The stored items in scan order are a, b, a, b with no lease.
Alternating ==
  /\ StoredSuffixes(store) = FilterSuffixes
  /\ \A c \in store :
       /\ c.attr = COLLECTION_ATTRIBUTE
       /\ c.val = (IF SuffixOf(c.subj) \in {1, 3} THEN "a" ELSE "b")

\* A call whose filter rejected the first and third of four records returned
\* the second and the fourth: the accepted record between the two rejected
\* ones reset the counter (the call had max_filtered = 2).
C30_Witness ==
  /\ Alternating
  /\ ret.op = "QueueClaimRecords"
  /\ SuffixesOf(ret.val) = {2, 4}

\* A call that a rejected record stopped before an acceptable one.
C30_WitnessStopped ==
  /\ StoredSuffixes(store) = {1, 2}
  /\ \A c \in store : c.attr = COLLECTION_ATTRIBUTE /\ c.val = ItemOf(SuffixOf(c.subj))
  /\ ret.op = "QueueClaimRecords"
  /\ ret.val = <<>>
  /\ pool[Holder].set_requests = <<>>


(***************************************************************************)
(* Dangling leases: one worker claims records, deletes and refreshes the   *)
(* records it has claimed, in any order, and flushes.  A refresh that is   *)
(* applied after the deletion leaves a row with a lease and no item.  Time  *)
(* runs until a lease taken at the start has expired.                      *)
(***************************************************************************)
\* The record QueueClaimRecords returns for the item added with this suffix.
RecordOf(suffix) == Record(RecQueue, Now(suffix - 1), suffix, "Records", ItemOf(suffix))

NextDangling ==
  \/ \E suffix \in RecSuffixes :
       /\ suffix \notin StoredSuffixes(store)
       /\ AddInScope(RecQueue, ItemOf(suffix), Now(suffix - 1), suffix)
  \/ \E limit \in 1..2, record_filter \in Filters :
       /\ Flushed(Holder)
       /\ QueueClaimRecords(Holder, RecQueue, limit, FilterTimeout, None, record_filter, 1)
  \/ \E suffix \in RecSuffixes :
       /\ recBy[suffix] = Holder
       /\ QueueDeleteRecords(Holder, <<RecordOf(suffix)>>)
  \/ \E suffix \in RecSuffixes :
       /\ recBy[suffix] = Holder
       /\ QueueRefreshClaims(Holder, <<RecordOf(suffix)>>, FilterTimeout)
  \/ Flush(Holder, 0)
  \/ Advance(FilterTimeout)

SpecDangling == Init /\ [][NextDangling]_vars

\* The subjects of the scanned rows that carry no item.
RECURSIVE DanglingRows(_)
DanglingRows(rows) ==
  IF rows = <<>> THEN <<>>
  ELSE (IF COLLECTION_ATTRIBUTE \notin DOMAIN Head(rows).values
          THEN <<Head(rows).subject>> ELSE <<>>) \o DanglingRows(Tail(rows))

\* The dangling rows the loop reaches: all of them when the scan runs to the
\* end, else those before the eligible row at which it stops.
RECURSIVE ReachedBefore(_, _)
ReachedBefore(subjects, last) ==
  IF subjects = <<>> THEN <<>>
  ELSE (IF LexLess(Head(subjects).leaf, last.leaf) THEN <<Head(subjects)>> ELSE <<>>)
         \o ReachedBefore(Tail(subjects), last)

DanglingReached(rows, e, limit, record_filter, max_filtered) ==
  IF \E k \in 0..Len(e) : ScanOver(e, k, limit, record_filter, max_filtered)
    THEN LET n == RowsScanned(e, limit, record_filter, max_filtered)
         IN  IF n = 0 THEN <<>> ELSE ReachedBefore(DanglingRows(rows), e[n].subject)
    ELSE DanglingRows(rows)

\* What a QueueClaimRecords step with these arguments must have done with the
\* dangling rows: the records returned are those the rows with an item alone
\* determine, none is a dangling row, and the pool holds one deletion of the
\* lease per dangling row reached.
DanglingCleaned(limit, record_filter, max_filtered) ==
  \E rows \in {ClaimRows(store, RecQueue, limit, None)} :
    \E e \in {EligibleRows(rows, Now(clock))} :
      LET n    == RowsScanned(e, limit, record_filter, max_filtered)
          got  == ret'.val
          dels == pool'[Holder].delete_attributes_requests
          reached == DanglingReached(rows, e, limit, record_filter, max_filtered)
      IN  /\ {RecordURN(got[i]) : i \in DOMAIN got}
               = {e[j].subject : j \in AcceptedIn(e, n, record_filter)}
          /\ \A i \in DOMAIN got : \A j \in DOMAIN reached : RecordURN(got[i]) # reached[j]
          /\ dels = [j \in DOMAIN reached |->
                       [subject |-> reached[j], attributes |-> {QUEUE_LOCK_ATTRIBUTE},
                        start |-> None, end |-> None]]

\* A Flush that follows the claim directly removes the rows whose lease the
\* claim has marked for deletion.
DanglingGone ==
  (ret.op = "QueueClaimRecords" /\ Flush(Holder, 0))
    => \A i \in DOMAIN pool[Holder].delete_attributes_requests :
         \A c \in store' : c.subj # pool[Holder].delete_attributes_requests[i].subject

\* C31: a scanned row with aff4:lease and no aff4:sequential_value is not
\* returned by QueueClaimRecords, counts neither toward limit nor toward the
\* filtered counter, and gets a deletion of its lease buffered; the Flush
\* after the claim removes the row.
C31_DanglingLeaseCleaned ==
  [][ /\ \A limit \in 1..2, record_filter \in Filters :
           (/\ ret'.op = "QueueClaimRecords"
            /\ QueueClaimRecords(Holder, RecQueue, limit, FilterTimeout, None,
                                 record_filter, 1))
             => DanglingCleaned(limit, record_filter, 1)
      /\ DanglingGone]_vars

\* A row of the store holds a lease and no item.
Dangling(suffix) ==
  /\ \E c \in store : SuffixOf(c.subj) = suffix /\ c.subj.base = RecQueue
                      /\ c.attr = QUEUE_LOCK_ATTRIBUTE
  /\ ~\E c \in store : SuffixOf(c.subj) = suffix /\ c.subj.base = RecQueue
                       /\ c.attr = COLLECTION_ATTRIBUTE

\* A claim has passed a dangling row, buffered the deletion of its lease and
\* returned the record behind it.
C31_Witness ==
  /\ ret.op = "QueueClaimRecords"
  /\ Dangling(1)
  /\ SuffixesOf(ret.val) = {2}
  /\ Len(pool[Holder].delete_attributes_requests) = 1


(***************************************************************************)
(* The subject of a claimed record, rebuilt from the record: one worker    *)
(* adds items under suffixes of one to six significant hex digits, claims, *)
(* and refreshes, releases or deletes what the claim returned.             *)
(***************************************************************************)
RebuildSuffixes == {1, 171, 1048576, COLLECTION_MAX_SUFFIX}
RebuildTimes == {0, Now(1), Now(2) + 1}
MaxRebuildRows == 2

RecordRows(st) == {c.subj : c \in {d \in st : d.subj.base = RecQueue /\ d.subj.sub = "Records"}}

NextRebuild ==
  \/ \E suffix \in RebuildSuffixes, timestamp \in RebuildTimes :
       /\ suffix \notin StoredSuffixes(store)
       /\ Cardinality(RecordRows(store)) < MaxRebuildRows
       /\ QueueAddItemInScope(RecQueue, "a", timestamp, suffix)
  \/ \E limit \in 1..2 :
       /\ Flushed(Holder)
       /\ QueueClaimRecords(Holder, RecQueue, limit, FilterTimeout, None, {}, 0)
  \/ /\ ret.op = "QueueClaimRecords"
     /\ ret.val # <<>>
     /\ \/ QueueRefreshClaims(Holder, ret.val, FilterTimeout)
        \/ QueueReleaseRecords(Holder, ret.val)
        \/ QueueDeleteRecords(Holder, ret.val)
  \/ Flush(Holder, 0)

SpecRebuild == Init /\ [][NextRebuild]_vars

\* The subjects of a list of requests.
SubjectsOf(reqs) == [i \in DOMAIN reqs |-> reqs[i].subject]

\* C32: the subject rebuilt from a record that QueueClaimRecords returned for
\* an item of QueueAddItem is the subject the record was scanned from (the
\* one the claim's lease write names, a row that holds the record's item at
\* the record's timestamp); QueueRefreshClaims, QueueReleaseRecords and
\* QueueDeleteRecords name exactly the claimed rows, and their Flush changes
\* no other row.
C32_RebuiltSubjectIsScanned ==
  [][ /\ ret'.op = "QueueClaimRecords" =>
           (/\ SubjectsOf(pool'[Holder].set_requests)
                 = [i \in DOMAIN ret'.val |-> RecordURN(ret'.val[i])]
            /\ \A i \in DOMAIN ret'.val :
                 \E c \in store : /\ c.subj = RecordURN(ret'.val[i])
                                  /\ c.attr = COLLECTION_ATTRIBUTE
                                  /\ c.ts = ret'.val[i].timestamp
                                  /\ c.val = ret'.val[i].value)
      /\ ret'.op = "QueueRefreshClaims" =>
           (SubjectsOf(pool'[Holder].set_requests)
              = SubjectsOf(pool[Holder].set_requests) \o SubjectsOf(pool[Holder].set_requests))
      /\ ret'.op \in {"QueueReleaseRecords", "QueueDeleteRecords"} =>
           (SubjectsOf(pool'[Holder].delete_attributes_requests)
              = SubjectsOf(pool[Holder].delete_attributes_requests)
                  \o SubjectsOf(pool[Holder].set_requests))
      /\ ret'.op = "Flush" =>
           (\A c \in (store \ store') \cup (store' \ store) :
              \E r \in Range(pool[Holder].set_requests)
                         \cup Range(pool[Holder].delete_attributes_requests) :
                c.subj = r.subject)]_vars

\* A claim has returned the records of two rows whose suffixes have six
\* significant hex digits, and the deletion of both is buffered.
C32_Witness ==
  /\ ret.op = "QueueDeleteRecords"
  /\ StoredSuffixes(store) = {1048576, COLLECTION_MAX_SUFFIX}
  /\ Len(pool[Holder].delete_attributes_requests) = 2
  /\ {SuffixOf(pool[Holder].delete_attributes_requests[i].subject) : i \in 1..2}
       = {1048576, COLLECTION_MAX_SUFFIX}


(***************************************************************************)
(* A backend error during Flush.                                           *)
(***************************************************************************)
OpsOf(calls) == [i \in DOMAIN calls |-> calls[i].op]

\* C33: a Flush in which a backend call raises ends with the exception and
\* leaves every pending list of the pool as it was; the next Flush that
\* returns dispatches every buffered request, those that the failed Flush had
\* already applied among them.
C33_FailedFlushKeepsPool ==
  [][ /\ (ret'.op \in FlushOps /\ ret'.exc) =>
           (/\ pool' = pool
            /\ Size(pool'[ret'.w]) = Size(pool[ret'.w])
            /\ ret'.calls = SubSeq(OpsOf(FlushCalls(pool[ret'.w])), 1, Len(ret'.calls)))
      /\ (ret.op \in FlushOps /\ ret.exc /\ ret'.op \in FlushOps /\ ~ret'.exc) =>
           (/\ ret'.calls = OpsOf(FlushCalls(pool[ret.w]))
            /\ SubSeq(ret'.calls, 1, Len(ret.calls)) = ret.calls
            /\ store' = ApplyCalls([store |-> store, dirty |-> dirty], Now(clock),
                                   FlushCalls(pool[ret.w])).store)]_vars

\* A Flush has failed in its fourth backend call or later: the MultiSet before
\* it is applied and the pool still holds every request.
C33_Witness ==
  /\ ret.op = "Flush"
  /\ ret.exc
  /\ Len(ret.calls) >= 4
  /\ \E i \in 1..(Len(ret.calls) - 1) : ret.calls[i] = "MultiSet"
  /\ \E c \in store : c.subj = PoolSubject
  /\ Len(pool[PoolCaller].set_requests) >= 1
  /\ Size(pool[PoolCaller]) >= 2


FlushThreshold == 2
COLLECTION_INDEX_ATTRIBUTE_PREFIX == "index:sc_"
COLLECTION_VALUE_TYPE_PREFIX == "aff4:value_type_"

PoolCollectionAddIndex(p, collection_id, index, timestamp, suffix) ==
  PoolSet(p, Subj(collection_id), <<COLLECTION_INDEX_ATTRIBUTE_PREFIX, index>>,
          HexPad(suffix, 6), timestamp, TRUE)

PoolCollectionAddStoredTypeIndex(p, collection_id, stored_type) ==
  PoolSet(p, Subj(collection_id), <<COLLECTION_VALUE_TYPE_PREFIX, stored_type>>, 1, 0, TRUE)

\* A CollectionDelete that never flushes on its way.
FlushDueNever(p) == FALSE

\* if self.Size() > 50000
FlushDue(p) == Size(p) > FlushThreshold

\* The loop of CollectionDelete over the scanned rows, from row i on; acc
\* holds the pool, the backend, the Size() after each subject and the number
\* of flushes.
RECURSIVE CollectionDeleteLoop(_, _, _, _)
CollectionDeleteLoop(rows, i, now, acc) ==
  IF i > Len(rows) THEN acc
  ELSE LET p == PoolDeleteSubject(acc.pool, rows[i].subject)
       IN  IF FlushDue(p)
             THEN CollectionDeleteLoop(rows, i + 1, now,
                    [pool    |-> EmptyPool,
                     db      |-> ApplyCalls(acc.db, now, FlushCalls(p)),
                     sizes   |-> Append(acc.sizes, 0),
                     flushes |-> acc.flushes + 1])
             ELSE CollectionDeleteLoop(rows, i + 1, now,
                    [acc EXCEPT !.pool = p, !.sizes = Append(@, Size(p))])

\* CollectionDelete with backend calls that do not raise; the rows are those
\* the scan finds when it starts.
CollectionDelete(w, collection_id) ==
  \E r \in {CollectionDeleteLoop(
              DbScanAttributes(store, collection_id, "Results", {COLLECTION_ATTRIBUTE},
                               <<>>, Cardinality(store)),
              1, Now(clock),
              [pool |-> pool[w], db |-> [store |-> store, dirty |-> dirty],
               sizes |-> <<>>, flushes |-> 0])} :
    /\ Idle(w)
    /\ pool' = [pool EXCEPT ![w] = r.pool]
    /\ store' = r.db.store
    /\ dirty' = r.db.dirty
    /\ ret' = [op |-> "CollectionDelete", w |-> w,
               val |-> [sizes |-> r.sizes, flushes |-> r.flushes]]
    /\ UNCHANGED <<inScope, lockVars, clock, flusher, ghostVars>>

CollectionAddIndexInScope(collection_id, index, timestamp, suffix) ==
  /\ InScope(PoolCollectionAddIndex(EmptyPool, collection_id, index, timestamp, suffix))
  /\ UNCHANGED <<pool, inScope, lockVars, clock, flusher, ghostVars>>

CollectionAddStoredTypeIndexInScope(collection_id, stored_type) ==
  /\ InScope(PoolCollectionAddStoredTypeIndex(EmptyPool, collection_id, stored_type))
  /\ UNCHANGED <<pool, inScope, lockVars, clock, flusher, ghostVars>>

DeleteSuffixes == 1..4
OtherSubject == Subj("X")

NextCollectionDelete ==
  \/ \E suffix \in DeleteSuffixes :
       CollectionAddInScope(ScanCollection, 5, Now(1), suffix)
  \/ CollectionAddIndexInScope(ScanCollection, 1, Now(1), 1)
  \/ CollectionAddStoredTypeIndexInScope(ScanCollection, "T")
  \/ QueueAddItemInScope(ScanCollection, "a", Now(1), 1)
  \/ DeleteSubject(Holder, OtherSubject)
  \/ /\ \A x \in Range(pool[Holder].delete_subject_requests) : x = OtherSubject
     /\ CollectionDelete(Holder, ScanCollection)
  \/ Flush(Holder, 0)

SpecCollectionDelete == Init /\ [][NextCollectionDelete]_vars

\* The item rows of the collection.
ResultRows(st, collection_id) ==
  {c.subj : c \in {d \in st : /\ d.subj.base = collection_id /\ d.subj.sub = "Results"
                              /\ d.attr = COLLECTION_ATTRIBUTE}}

\* C35: CollectionDelete flushes the pool whenever Size() has passed the
\* threshold, so Size() is at most the threshold after each scanned subject;
\* the deletions buffered after the last flush are applied by the caller's
\* next Flush and not before; only rows below <base>/Results are deleted, and
\* the index and value type cells of the base subject stay.
C35_CollectionDeleteFlushes ==
  [][ /\ ret'.op = "CollectionDelete" =>
           LET sizes == ret'.val.sizes
               before(i) == IF i = 1 THEN Size(pool[Holder]) ELSE sizes[i - 1]
               pending == Range(pool'[Holder].delete_subject_requests)
                            \ Range(pool[Holder].delete_subject_requests)
           IN  /\ Len(sizes) = Cardinality(ResultRows(store, ScanCollection))
               /\ \A i \in DOMAIN sizes :
                    /\ sizes[i] <= FlushThreshold
                    /\ sizes[i] = IF before(i) + 1 > FlushThreshold THEN 0 ELSE before(i) + 1
               /\ ret'.val.flushes = Cardinality({i \in DOMAIN sizes : sizes[i] = 0})
               /\ sizes # <<>> => Size(pool'[Holder]) = sizes[Len(sizes)]
               /\ pending \subseteq ResultRows(store, ScanCollection)
               /\ ResultRows(store', ScanCollection) = pending
               /\ \A c \in store : c.subj \in pending => c \in store'
               /\ \A c \in store \ store' :
                    \/ c.subj \in ResultRows(store, ScanCollection)
                    \/ c.subj \in Range(pool[Holder].delete_subject_requests)
               /\ \A c \in store : c.subj.base = ScanCollection /\ c.subj.sub # "Results"
                                     => c \in store'
               /\ store' \subseteq store
      /\ (ret.op = "CollectionDelete" /\ ret'.op = "Flush") =>
           ResultRows(store', ScanCollection) = {}]_vars

\* A CollectionDelete of four items that found one request pending has
\* flushed once on its way and left two deletions buffered; the index cell,
\* the value type cell and the Records row are in the store.
C35_Witness ==
  /\ ret.op = "CollectionDelete"
  /\ ret.val.sizes = <<2, 0, 1, 2>>
  /\ ret.val.flushes = 1
  /\ Cardinality(ResultRows(store, ScanCollection)) = 2
  /\ \E c \in store : c.subj = Subj(ScanCollection) /\ c.attr[1] = COLLECTION_INDEX_ATTRIBUTE_PREFIX
  /\ \E c \in store : c.subj = Subj(ScanCollection) /\ c.attr[1] = COLLECTION_VALUE_TYPE_PREFIX
  /\ \E c \in store : c.subj.base = ScanCollection /\ c.subj.sub = "Records"


(***************************************************************************)
(* DataStore.ResolvePrefix by its mechanism: MultiResolvePrefix delivers   *)
(* the cells of the subject in an order of the backend's choice in which   *)
(* the cells of one attribute come newest first, and ResolvePrefix sorts   *)
(* the list by attribute with a stable sort.                               *)
(***************************************************************************)
\* The orders in which MultiResolvePrefix may deliver the cells of one subject.
Deliveries(cells) ==
  {seq \in Orders(cells) :
     \A i, j \in DOMAIN seq : (i < j /\ seq[i].attr = seq[j].attr) => seq[i].ts >= seq[j].ts}

\* A sort by attribute that puts a value behind the later values of its key.
RECURSIVE SortByAttributeUnstable(_)
SortByAttributeUnstable(values) ==
  IF values = <<>> THEN <<>>
  ELSE LET rest == SortByAttributeUnstable(Tail(values))
           h    == Head(values)
           k    == Cardinality({i \in DOMAIN rest : rest[i].attr[2] <= h.attr[2]})
       IN  SubSeq(rest, 1, k) \o <<h>> \o SubSeq(rest, k + 1, Len(rest))

\* values.sort(key=lambda a: a[0]): stable.
RECURSIVE SortByAttribute(_)
SortByAttribute(values) ==
  IF values = <<>> THEN <<>>
  ELSE LET rest == SortByAttribute(Tail(values))
           h    == Head(values)
           k    == Cardinality({i \in DOMAIN rest : rest[i].attr[2] < h.attr[2]})
       IN  SubSeq(rest, 1, k) \o <<h>> \o SubSeq(rest, k + 1, Len(rest))

\* ResolvePrefix on what MultiResolvePrefix yields: the sorted values of the
\* first (subject, values) pair, or the empty list.
DataStoreResolvePrefix(w, subject, attribute_prefix, start, end) ==
  \E cells \in {DbPrefixCells(store, subject, attribute_prefix, start, end)} :
    \E delivered \in (IF cells = {} THEN {<<>>} ELSE Deliveries(cells)) :
      ReadOnly(w, "ResolvePrefix",
               [subject |-> subject, attribute_prefix |-> attribute_prefix,
                start |-> start, end |-> end, delivered |-> delivered,
                values |-> IF cells = {} THEN <<>> ELSE SortByAttribute(delivered)])

SetInScope(subject, attribute, value, timestamp, replace) ==
  /\ InScope(PoolSet(EmptyPool, subject, attribute, value, timestamp, replace))
  /\ UNCHANGED <<pool, inScope, lockVars, clock, flusher, ghostVars>>

ResolveNames == 1..2
ResolveTimes == {Now(1), Now(2)}
ResolveSubjects == {PoolSubject, Subj("E")}

NextResolve ==
  \/ \E name \in ResolveNames, timestamp \in ResolveTimes :
       SetInScope(PoolSubject, <<"x:", name>>, 1, timestamp, FALSE)
  \/ SetInScope(PoolSubject, <<"y:", 1>>, 1, Now(1), FALSE)
  \/ \E subject \in ResolveSubjects, end \in {None, Now(1)} :
       DataStoreResolvePrefix(Holder, subject, "x:", IF end = None THEN None ELSE 0, end)

SpecResolve == Init /\ [][NextResolve]_vars

\* The position in the delivered list of the value at position i of the result.
DeliveredAt(v, i) == CHOOSE k \in DOMAIN v.delivered : v.delivered[k] = v.values[i]

\* C36: ResolvePrefix returns the matching cells of the subject sorted by
\* attribute name; cells of one attribute keep the order in which
\* MultiResolvePrefix delivered them, newest first; the list is empty when the
\* subject has no matching cell.
C36_ResolvePrefixSorted ==
  ret.op = "ResolvePrefix" =>
    LET v == ret.val
        matching == DbPrefixCells(store, v.subject, v.attribute_prefix, v.start, v.end)
    IN  /\ Range(v.values) = matching
        /\ Len(v.values) = Cardinality(matching)
        /\ matching = {} => v.values = <<>>
        /\ \A i, j \in DOMAIN v.values :
             i < j => /\ v.values[i].attr[2] <= v.values[j].attr[2]
                      /\ v.values[i].attr = v.values[j].attr =>
                           /\ DeliveredAt(v, i) < DeliveredAt(v, j)
                           /\ v.values[i].ts >= v.values[j].ts
        /\ v.values = ResolvePrefix(store, v.subject, v.attribute_prefix, v.start, v.end)

\* Two attributes with two versions each were delivered with the second
\* attribute first, and returned sorted by attribute, each newest first.
C36_Witness ==
  /\ ret.op = "ResolvePrefix"
  /\ Len(ret.val.values) = 4
  /\ ret.val.delivered[1].attr[2] = 2
  /\ ret.val.values[1].attr[2] = 1
  /\ ret.val.values[1].ts > ret.val.values[2].ts
  /\ \E c \in store : c.attr[1] = "y:"

\* The subject without a cell yields the empty list.
C36_WitnessEmpty ==
  /\ ret.op = "ResolvePrefix"
  /\ ret.val.subject = Subj("E")
  /\ ret.val.values = <<>>
  /\ store # {}


\* The kw_index cells of (keyword, name) with a timestamp in [start, end].
Postings(index_urn, kw, name, start, end) ==
  {c \in store : /\ c.subj = _KeywordToURN(index_urn, kw)
                 /\ c.attr = IndexColumn(name)
                 /\ InWindow(c.ts, start, end)}

\* C37: IndexReadPostingLists(index, keywords, start_time, end_time) only
\* considers postings added at or after start_time and at or before
\* end_time: every name in a keyword's result set has a kw_index cell for
\* the keyword with a timestamp in [start_time, end_time], and every entry
\* (keyword, name) of last_seen_map is the largest such timestamp.
C37_PostingsWithinWindow ==
  ret.op = "IndexReadPostingLists" =>
    LET v == ret.val
    IN  /\ \A kw \in v.keywords : \A name \in v.result[kw] :
             Postings(v.index_urn, kw, name, v.start_time, v.end_time) # {}
        /\ \A pr \in DOMAIN v.last_seen_map :
             \E c \in Postings(v.index_urn, pr[1], pr[2], v.start_time, v.end_time) :
               v.last_seen_map[pr] = c.ts

\* What the read does: the window it asks MultiResolvePrefix for ends at
\* end_time + 1, both limits included, and the map started empty holds per
\* pair the largest timestamp of the pair's cells in that window.
PostingsWithinRequestedWindow ==
  ret.op = "IndexReadPostingLists" =>
    LET v == ret.val
    IN  /\ \A kw \in v.keywords :
             v.result[kw] = {name \in IndexNames :
                               Postings(v.index_urn, kw, name, v.start_time, v.end_time + 1) # {}}
        /\ DOMAIN v.last_seen_map =
             {pr \in v.keywords \X IndexNames : pr[2] \in v.result[pr[1]]}
        /\ \A pr \in DOMAIN v.last_seen_map :
             LET seen == Postings(v.index_urn, pr[1], pr[2], v.start_time, v.end_time + 1)
             IN  /\ \E c \in seen : v.last_seen_map[pr] = c.ts
                 /\ \A c \in seen : v.last_seen_map[pr] >= c.ts


\* The ways in which LockRetryWrapper raises DBSubjectLockError: the error of
\* a non-blocking attempt, and the one raised behind the loop.
RaisesLockError(r) == r.outcome \in {"DBSubjectLockError", "Retry number exceeded."}

\* C38: a LockRetryWrapper that raises DBSubjectLockError has attempted to
\* acquire the lock at least once, whatever retrywrap_max_timeout (0 and
\* negative values included) and blocking are.
C38_AttemptBeforeError ==
  (ret.op = "LockRetryWrapper" /\ RaisesLockError(ret.val)) => ret.val.attempts >= 1

\* The same for the calls with a budget, retrywrap_max_timeout > 0.
AttemptBeforeErrorWithBudget ==
  (/\ ret.op = "LockRetryWrapper"
   /\ RaisesLockError(ret.val)
   /\ ret.retrywrap_max_timeout > 0) => ret.val.attempts >= 1


(***************************************************************************)
(* CollectionMakeURN as a function of a 64-bit timestamp.  A timestamp of  *)
(* [0, 2^64) is kept as its four 16-bit limbs, most significant first, so  *)
(* that "%016x" is the concatenation of the limbs' four digits each.       *)
(***************************************************************************)
\* "%016x" % timestamp
HexPad64(timestamp) ==
  HexPad(timestamp[1], 4) \o HexPad(timestamp[2], 4)
    \o HexPad(timestamp[3], 4) \o HexPad(timestamp[4], 4)

\* A CollectionMakeURN that formats the suffix with "%x".
CollectionMakeURN64Unpadded(urn, timestamp, suffix, subpath) ==
  [base |-> urn, sub |-> subpath,
   leaf |-> HexPad64(timestamp) \o <<46>> \o HexStr(suffix)]

\* urn.Add(subpath).Add("%016x.%06x" % (timestamp, suffix))
CollectionMakeURN64(urn, timestamp, suffix, subpath) ==
  [base |-> urn, sub |-> subpath,
   leaf |-> HexPad64(timestamp) \o <<46>> \o HexPad(suffix, 6)]

\* The timestamps and suffixes the calls are made with: 0, 9, 10, 2^31 - 1,
\* 2^32 - 1, 2^32, 2^63 and 2^64 - 1; 0, 1, 9, 16, 0xabcdef and 0xffffff.
UrnTimes ==
  {<<0, 0, 0, 0>>, <<0, 0, 0, 9>>, <<0, 0, 0, 10>>, <<0, 0, 32767, 65535>>,
   <<0, 0, 65535, 65535>>, <<0, 1, 0, 0>>, <<32768, 0, 0, 0>>,
   <<65535, 65535, 65535, 65535>>}
UrnSuffixes == {0, 1, 9, 16, 11259375, COLLECTION_MAX_SUFFIX}
UrnSubpaths == {"Results", "Records"}

\* random.randint(a, b), among the sampled suffixes.
RandInt(a, b) == {x \in UrnSuffixes : a <= x /\ x <= b}

\* One call of CollectionMakeURN; given tells whether a suffix was passed.
\* The triple it returned before under the same base and subpath is kept.
DataStoreCollectionMakeURN(urn, timestamp, suffix, subpath, given) ==
  /\ ret' = [op |-> "CollectionMakeURN", w |-> NoWorker, given |-> given,
             val |-> <<CollectionMakeURN64(urn, timestamp, suffix, subpath), timestamp, suffix>>,
             prev |-> IF ret.op = "CollectionMakeURN" /\ ret.val[1].sub = subpath
                        THEN <<ret.val>> ELSE <<>>]
  /\ UNCHANGED <<store, dirty, pool, inScope, lockVars, clock, flusher, ghostVars>>

NextMakeURN ==
  \/ \E timestamp \in UrnTimes, suffix \in UrnSuffixes, subpath \in UrnSubpaths :
       DataStoreCollectionMakeURN(ScanCollection, timestamp, suffix, subpath, TRUE)
  \/ \E timestamp \in UrnTimes, subpath \in UrnSubpaths :
       \E suffix \in RandInt(1, COLLECTION_MAX_SUFFIX) :
         DataStoreCollectionMakeURN(ScanCollection, timestamp, suffix, subpath, FALSE)

SpecMakeURN == Init /\ [][NextMakeURN]_vars

\* The numeric order of two 64-bit timestamps, and of two positions.
Time64Less(a, b) ==
  \E i \in 1..4 : a[i] < b[i] /\ \A j \in 1..(i - 1) : a[j] = b[j]

Position64Less(a, b) == Time64Less(a[1], b[1]) \/ (a[1] = b[1] /\ a[2] < b[2])

\* C39: for a timestamp in [0, 2^64) and a suffix in [0, 0xFFFFFF], the
\* subject built by CollectionMakeURN is below another one of the same base
\* and subpath in the order of strings exactly when its (timestamp, suffix)
\* is below the other's in the order of numbers; the last six characters of
\* the subject, read as hexadecimal, are the suffix; and a suffix that
\* CollectionMakeURN chose itself lies in [1, 0xFFFFFF].
C39_SubjectOrderIsPositionOrder ==
  ret.op = "CollectionMakeURN" =>
    LET subject   == ret.val[1]
        timestamp == ret.val[2]
        suffix    == ret.val[3]
    IN  /\ Len(subject.leaf) = 23
        /\ SuffixOf(subject) = suffix
        /\ ~ret.given => (1 <= suffix /\ suffix <= COLLECTION_MAX_SUFFIX)
        /\ (timestamp[1] = 0 /\ timestamp[2] = 0 /\ timestamp[3] < 32768) =>
             subject = CollectionMakeURN(subject.base,
                                         timestamp[3] * 65536 + timestamp[4],
                                         suffix, subject.sub)
        /\ \A p \in Range(ret.prev) :
             /\ LexLess(p[1].leaf, subject.leaf)
                  <=> Position64Less(<<p[2], p[3]>>, <<timestamp, suffix>>)
             /\ LexLess(subject.leaf, p[1].leaf)
                  <=> Position64Less(<<timestamp, suffix>>, <<p[2], p[3]>>)
             /\ (p[1] = subject) <=> (p[2] = timestamp /\ p[3] = suffix)

\* After the subject of (2^64 - 1, 9), the subject of (2^64 - 1, 16) has
\* been built: without the padding the second suffix would be the longer
\* string and the smaller one.
C39_Witness ==
  /\ ret.op = "CollectionMakeURN"
  /\ ret.val[2] = <<65535, 65535, 65535, 65535>> /\ ret.val[3] = 16
  /\ ret.prev # <<>>
  /\ ret.prev[1][2] = ret.val[2] /\ ret.prev[1][3] = 9
  /\ LexLess(ret.prev[1][1].leaf, ret.val[1].leaf)

\* CollectionMakeURN has chosen the suffix itself, after a subject with a
\* later timestamp and the suffix 0.
C39_WitnessChosen ==
  /\ ret.op = "CollectionMakeURN"
  /\ ~ret.given
  /\ ret.prev # <<>>
  /\ ret.prev[1][3] = 0
  /\ Time64Less(ret.val[2], ret.prev[1][2])
  /\ LexLess(ret.val[1].leaf, ret.prev[1][1].leaf)

=============================================================================
